---- MODULE Spec2Model ----
(***************************************************************************)
(* Seat inventory and booking lifecycle of bookmyshow-lld.                 *)
(*                                                                         *)
(* Worker threads call BookingServiceImpl.CreateBooking / ConfirmBooking,  *)
(* PaymentServiceImpl.ProcessPayment, Screen.BlockSeats and the Booking    *)
(* methods Cancel / Expire.  Every step that reads or writes a shared      *)
(* object (a seat's status, a booking, a repository, a mutex, the clock)   *)
(* is one action; a thread's position is th[t].pc.                         *)
(*                                                                         *)
(* Reads of immutable data (the show and screen registries, the seat map   *)
(* of the screen, seat prices) are folded into the neighbouring step.      *)
(* A mutex that is taken and released inside one method without calling    *)
(* out (Seat.mutex, Booking.mutex, the repositories' mutexes) makes that   *)
(* method one atomic action.  BookingServiceImpl.mutex and                 *)
(* Screen.seatsMutex are held across steps and are explicit state.         *)
(*                                                                         *)
(* An argument that a call reads at exactly one place (userID, showID,     *)
(* paymentID, bookingID, paymentMethod outcome) is drawn where it is read. *)
(***************************************************************************)
EXTENDS Integers, Sequences, FiniteSets, TLC

----------------------------------------------------------------------------
(* Bounds of the model *)

\* number of worker threads is fixed by the set Threads
Threads == {"t1", "t2"}

\* longest seat-id list passed to CreateBooking / BlockSeats
MaxSeatIDs == 3

\* the booking store holds at most this many records (ids 1..MaxBookings)
MaxBookings == 2

\* the payment store holds at most this many records
MaxPayments == 2

\* payment records stored in the runs of the payment service beside the
\* whole booking service
MaxServicePayments == 1

\* the clock advances in steps of TickStep minutes up to MaxTime
TickStep == 15

MaxTime == 30

\* longest seat list of a direct Screen.BlockSeats caller that runs beside the
\* booking and payment services
MaxDirectSeatIDs == 1

\* bookings that can be stored in the runs checked for termination
MaxLiveBookings == 1

\* bookings that direct callers of the booking repository store
MaxDirectBookings == 1

\* Screen.Capacity grows up to this value
MaxCapacity == 5

\* the show store takes at most this many shows from ShowServiceImpl
MaxShows == 2

----------------------------------------------------------------------------
(* Program constants *)

\* const BookingTimeout = 15 * time.Minute
BookingTimeout == 15

\* bookingCutoff := s.StartTime.Add(30 * time.Minute)
BookingCutoff == 30

SeatStatusAvailable == "AVAILABLE"

SeatStatusBooked == "BOOKED"

SeatStatusBlocked == "BLOCKED"

SeatStatuses == {SeatStatusAvailable, SeatStatusBooked, SeatStatusBlocked}

BookingStatusPending == "PENDING"

BookingStatusConfirmed == "CONFIRMED"

BookingStatusCancelled == "CANCELLED"

BookingStatusExpired == "EXPIRED"

PaymentStatusPending == "PENDING"

PaymentStatusSuccess == "SUCCESS"

PaymentStatusFailed == "FAILED"

\* the nil error
OK == "nil"

ErrScreenNotFound == "screen not found"

ErrSeatNotFound == "seat not found"

ErrSeatNotAvailable == "seat is not available"

ErrSeatNotBlocked == "seat is not blocked"

ErrShowNotFound == "show not found"

ErrShowNotBookable == "show is not available for booking"

ErrInvalidBookingData == "invalid booking data provided"

ErrBookingNotFound == "booking not found"

ErrBookingNotPending == "booking is not in pending status"

ErrBookingExpired == "booking has expired"

ErrBookingAlreadyConfirmed == "booking is already confirmed"

ErrBookingAlreadyCancelled == "booking is already cancelled"

ErrInvalidPaymentData == "invalid payment data provided"

ErrPaymentProcessingFail == "payment processing failed"

ErrMovieNotFound == "movie not found"

ErrTheatreNotFound == "theatre not found"

ErrInvalidShowData == "invalid show data provided"

ErrInvalidShowTime == "invalid show time"

\* an error returned by an injected store (the repositories are interfaces)
ErrStore == "store failure"

\* an error returned by NotificationService.SendBookingConfirmation
ErrNotify == "notification failure"

----------------------------------------------------------------------------
(* The fixture: the screen scr1 with two seats, the shows booked on it, the
   callers' inputs.  scr2 is a second screen of the same theatre, on which
   shows are scheduled but no seat is booked. *)

\* the seats of the screen (Screen.Seats), keyed by seat id
Seats == {"A1", "A2"}

\* a seat id that is not in the screen
UnknownSeat == "X"

SeatIDs == Seats \cup {UnknownSeat}

\* Seat.Price: base price 100 times the class multiplier (Regular 1.0, Premium 1.5)
Price == [s \in Seats |-> IF s = "A1" THEN 100 ELSE 150]

\* the screens in the screen repository
Screens == {"scr1", "scr2"}

\* the shows the booking service finds in the show repository: s1 plays on
\* scr1; s2 names a screen that is not stored.  Shows that CreateShow stores
\* later are kept in the variable shows.
Shows == [s1 |-> [ScreenID |-> "scr1", StartTime |-> 0 - TickStep],
          s2 |-> [ScreenID |-> "scr9", StartTime |-> 0 - TickStep]]

\* show ids a caller may pass; s9 is not stored
ShowIDs == {"s1", "s2", "s9"}

\* the movie repository: Movie.Duration of every stored movie, in minutes
Movies == [m1 |-> 30]

\* movie ids a caller may pass; m9 is not stored
MovieIDs == {"m1", "m9"}

\* the theatre repository
Theatres == {"th1", "th2"}

\* theatre ids a caller may pass; th9 is not stored
TheatreIDs == {"th1", "th2", "th9"}

\* Screen.TheatreID of every stored screen
TheatreOf == [scr \in Screens |-> "th1"]

\* screen ids a caller may pass; scr9 is not stored
ScreenIDs == Screens \cup {"scr9"}

\* start times a caller may pass to CreateShow
StartTimes == {0, 15, 30}

\* base prices a caller may pass to CreateShow
BasePrices == {0, 100}

\* user ids a caller may pass
UserIDs == {"u1", ""}

\* payment ids a caller may pass to ConfirmBooking
PaymentIDs == {"p1", "p2"}

\* a booking id that was never issued
UnknownBooking == MaxBookings + 1

NoThread == "none"

SeqsUpTo(S, n) == UNION {[1..k -> S] : k \in 0..n}

\* the seat-id lists a caller may pass
SeatLists == SeqsUpTo(SeatIDs, MaxSeatIDs)

Range(f) == {f[x] : x \in DOMAIN f}

----------------------------------------------------------------------------
(* Seat (models.Seat): the methods as functions of the status *)

\* Seat.IsAvailable
IsAvailable(st) == st = SeatStatusAvailable

\* Block that reports success without marking the seat
SeatBlockUnmarked(st) ==
    IF st # SeatStatusAvailable
    THEN [Status |-> st, err |-> ErrSeatNotAvailable]
    ELSE [Status |-> st, err |-> OK]

\* Seat.Block
SeatBlock(st) ==
    IF st # SeatStatusAvailable
    THEN [Status |-> st, err |-> ErrSeatNotAvailable]
    ELSE [Status |-> SeatStatusBlocked, err |-> OK]

\* Book that accepts every seat not yet Booked
SeatBookUnlessBooked(st) ==
    IF st = SeatStatusBooked
    THEN [Status |-> st, err |-> ErrSeatNotBlocked]
    ELSE [Status |-> SeatStatusBooked, err |-> OK]

\* Seat.Book
SeatBook(st) ==
    IF st # SeatStatusBlocked
    THEN [Status |-> st, err |-> ErrSeatNotBlocked]
    ELSE [Status |-> SeatStatusBooked, err |-> OK]

\* Seat.Unblock
SeatUnblock(st) ==
    IF st # SeatStatusBlocked
    THEN [Status |-> st, err |-> ErrSeatNotBlocked]
    ELSE [Status |-> SeatStatusAvailable, err |-> OK]

----------------------------------------------------------------------------
(* Booking (models.Booking) *)

NoBooking == [ID |-> 0, UserID |-> "", ShowID |-> "", SeatIDs |-> << >>,
              TotalAmount |-> 0, Status |-> "", BookingTime |-> 0,
              ExpiryTime |-> 0, PaymentID |-> ""]

\* NewBooking without the validation of its arguments
NewBookingUnchecked(id, userID, showID, seatIDs, totalAmount, t) ==
    [booking |-> [ID |-> id, UserID |-> userID, ShowID |-> showID,
                  SeatIDs |-> seatIDs, TotalAmount |-> totalAmount,
                  Status |-> BookingStatusPending, BookingTime |-> t,
                  ExpiryTime |-> t + BookingTimeout, PaymentID |-> ""],
     err |-> OK]

\* NewBooking that forgets the hold window
NewBookingNoWindow(id, userID, showID, seatIDs, totalAmount, t) ==
    IF userID = "" \/ showID = "" \/ Len(seatIDs) = 0 \/ totalAmount <= 0
    THEN [booking |-> NoBooking, err |-> ErrInvalidBookingData]
    ELSE [booking |-> [ID |-> id, UserID |-> userID, ShowID |-> showID,
                       SeatIDs |-> seatIDs, TotalAmount |-> totalAmount,
                       Status |-> BookingStatusPending, BookingTime |-> t,
                       ExpiryTime |-> t, PaymentID |-> ""],
          err |-> OK]

\* NewBooking; id stands for uuid.New(), t for time.Now()
NewBooking(id, userID, showID, seatIDs, totalAmount, t) ==
    IF userID = "" \/ showID = "" \/ Len(seatIDs) = 0 \/ totalAmount <= 0
    THEN [booking |-> NoBooking, err |-> ErrInvalidBookingData]
    ELSE [booking |-> [ID |-> id, UserID |-> userID, ShowID |-> showID,
                       SeatIDs |-> seatIDs, TotalAmount |-> totalAmount,
                       Status |-> BookingStatusPending, BookingTime |-> t,
                       ExpiryTime |-> t + BookingTimeout, PaymentID |-> ""],
          err |-> OK]

\* IsExpired that counts the deadline instant itself as past
IsExpiredAtDeadline(b, t) == t >= b.ExpiryTime /\ b.Status = BookingStatusPending

\* Booking.IsExpired; t is time.Now()
IsExpired(b, t) == t > b.ExpiryTime /\ b.Status = BookingStatusPending

\* Confirm without the deadline test
BookingConfirmNoDeadline(b, paymentID, t) ==
    IF b.Status # BookingStatusPending
    THEN [booking |-> b, err |-> ErrBookingNotPending]
    ELSE [booking |-> [b EXCEPT !.Status = BookingStatusConfirmed,
                                !.PaymentID = paymentID],
          err |-> OK]

\* Confirm without the test for Pending
BookingConfirmAnyStatus(b, paymentID, t) ==
    IF t > b.ExpiryTime
    THEN [booking |-> [b EXCEPT !.Status = BookingStatusExpired],
          err |-> ErrBookingExpired]
    ELSE [booking |-> [b EXCEPT !.Status = BookingStatusConfirmed,
                                !.PaymentID = paymentID],
          err |-> OK]

\* Confirm that accepts a booking that is already Confirmed
BookingConfirmAgain(b, paymentID, t) ==
    IF b.Status \notin {BookingStatusPending, BookingStatusConfirmed}
    THEN [booking |-> b, err |-> ErrBookingNotPending]
    ELSE IF b.Status = BookingStatusPending /\ t > b.ExpiryTime
    THEN [booking |-> [b EXCEPT !.Status = BookingStatusExpired],
          err |-> ErrBookingExpired]
    ELSE [booking |-> [b EXCEPT !.Status = BookingStatusConfirmed,
                                !.PaymentID = paymentID],
          err |-> OK]

\* Booking.Confirm
BookingConfirm(b, paymentID, t) ==
    IF b.Status # BookingStatusPending
    THEN [booking |-> b, err |-> ErrBookingNotPending]
    ELSE IF t > b.ExpiryTime
    THEN [booking |-> [b EXCEPT !.Status = BookingStatusExpired],
          err |-> ErrBookingExpired]
    ELSE [booking |-> [b EXCEPT !.Status = BookingStatusConfirmed,
                                !.PaymentID = paymentID],
          err |-> OK]

\* Booking.Cancel
BookingCancel(b) ==
    IF b.Status = BookingStatusConfirmed
    THEN [booking |-> b, err |-> ErrBookingAlreadyConfirmed]
    ELSE IF b.Status = BookingStatusCancelled
    THEN [booking |-> b, err |-> ErrBookingAlreadyCancelled]
    ELSE [booking |-> [b EXCEPT !.Status = BookingStatusCancelled], err |-> OK]

\* Booking.Expire
BookingExpire(b) ==
    IF b.Status # BookingStatusPending
    THEN [booking |-> b, err |-> ErrBookingNotPending]
    ELSE [booking |-> [b EXCEPT !.Status = BookingStatusExpired], err |-> OK]

\* Booking.CanBeCancelled
CanBeCancelled(b) ==
    b.Status = BookingStatusPending \/ b.Status = BookingStatusConfirmed

\* Show.CanBeBooked; t is time.Now()
CanBeBooked(show, t) == t < show.StartTime + BookingCutoff

----------------------------------------------------------------------------
(* State *)

VARIABLES
    now,          \* the wall clock, in minutes
    seatStatus,   \* Seat.Status of every seat of the screen
    screen,       \* Screen.Seats (the ids in the mapping) and Screen.Capacity
    svcMutex,     \* holder of BookingServiceImpl.mutex
    screenW,      \* thread holding Screen.seatsMutex exclusively
    screenR,      \* threads holding Screen.seatsMutex shared
    bookings,     \* the booking repository: bookings[id] is the stored *Booking
    payments,     \* the payment repository: payments[id] is the stored *Payment
    notified,     \* SendBookingConfirmation calls made, per booking id
    shows,        \* the shows that ShowServiceImpl.CreateShow has stored
    th,           \* each thread's call: position, arguments, locals
    race          \* history of two BlockSeats calls that wait for the screen together

vars == <<now, seatStatus, screen, svcMutex, screenW, screenR, bookings,
          payments, notified, shows, th, race>>

\* a thread that is in no call
Idle == [pc |-> "idle", op |-> "none", showID |-> "", seatIDs |-> << >>,
         i |-> 0, j |-> 0, total |-> 0, bid |-> 0, pid |-> 0,
         booking |-> NoBooking, err |-> OK, mine |-> {}, paymentID |-> "",
         sink |-> "", upd |-> OK, seen |-> {}, can |-> FALSE,
         screenID |-> "", startTime |-> 0, endTime |-> 0]

\* no two BlockSeats calls are waiting together
NoRace == [on |-> FALSE, same |-> FALSE, left |-> {}, results |-> << >>]

Init ==
    /\ now = 0
    /\ seatStatus = [s \in Seats |-> SeatStatusAvailable]
    /\ screen = [Seats |-> Seats, Capacity |-> Cardinality(Seats)]
    /\ svcMutex = NoThread
    /\ screenW = NoThread
    /\ screenR = {}
    /\ bookings = << >>
    /\ payments = << >>
    /\ notified = [b \in 1..MaxBookings |-> 0]
    /\ shows = << >>
    /\ th = [t \in Threads |-> Idle]
    /\ race = NoRace

----------------------------------------------------------------------------
(* Helpers *)

\* thread t moves to record r
Goto(t, r) == th' = [th EXCEPT ![t] = r]

\* a shared lock that does not wait for the writer
CanRLockUnchecked == TRUE

\* Screen.seatsMutex.RLock() can be taken (GetSeat takes and releases it)
CanRLock == screenW = NoThread

\* Screen.seatsMutex.Lock() can be taken
CanLock == screenW = NoThread /\ screenR = {}

\* ids of bookings that CreateBooking has returned to its caller: a uuid is
\* not known to any other caller before that
KnownBookings ==
    {b \in 1..Len(bookings) :
        \A t \in Threads : ~(th[t].op = "CreateBooking" /\ th[t].bid = b)}

\* t is about to call, or waits inside, Screen.BlockSeats
WaitsInBlockSeats(r) == r.pc \in {"bs_lock", "cb_block"}

\* the race record after thread t starts to wait in BlockSeats(seatIDs)
RaceAfter(t, seatIDs) ==
    IF race.on THEN race
    ELSE LET others == {o \in Threads \ {t} :
                          /\ WaitsInBlockSeats(th[o])
                          /\ Range(th[o].seatIDs) \cap Range(seatIDs) # {}}
         IN  IF others = {} THEN NoRace
             ELSE LET o == CHOOSE x \in others : TRUE
                  IN  [on |-> TRUE,
                       same |-> /\ Range(th[o].seatIDs) = Range(seatIDs)
                                /\ \A s \in Range(seatIDs) :
                                     s \in Seats /\ IsAvailable(seatStatus[s]),
                       left |-> {t, o},
                       results |-> << >>]

\* the race record after thread t returned err from BlockSeats
RaceReturn(t, err) ==
    IF race.on /\ t \in race.left
    THEN IF race.left = {t} THEN NoRace
         ELSE [race EXCEPT !.left = @ \ {t}, !.results = Append(@, err)]
    ELSE race

----------------------------------------------------------------------------
(* The clock *)

Tick ==
    /\ now + TickStep <= MaxTime
    /\ now' = now + TickStep
    /\ UNCHANGED <<seatStatus, screen, svcMutex, screenW, screenR, bookings,
                   payments, notified, shows, th, race>>

----------------------------------------------------------------------------
(* Screen.BlockSeats, called by CreateBooking or directly *)

\* a caller starts Screen.BlockSeats(seatIDs) and reaches s.seatsMutex.Lock()
BS_Start(t) ==
    /\ th[t].pc = "idle"
    /\ \E seatIDs \in SeatLists :
         /\ Goto(t, [Idle EXCEPT !.pc = "bs_lock", !.op = "BlockSeats",
                                 !.seatIDs = seatIDs])
         /\ race' = RaceAfter(t, seatIDs)
    /\ UNCHANGED <<now, seatStatus, screen, svcMutex, screenW, screenR,
                   bookings, payments, notified, shows>>

\* s.seatsMutex.Lock()
BS_Lock(t) ==
    /\ WaitsInBlockSeats(th[t])
    /\ CanLock
    /\ screenW' = t
    /\ Goto(t, [th[t] EXCEPT
                  !.pc = IF Len(th[t].seatIDs) = 0 THEN "bs_ret" ELSE "bs_check",
                  !.i = 1, !.err = OK])
    /\ UNCHANGED <<now, seatStatus, screen, svcMutex, screenR, bookings,
                   payments, notified, shows, race>>

\* a single pass that blocks each seat as soon as it has checked it
BS_CheckBlocking(t) ==
    LET r == th[t]
        s == r.seatIDs[r.i]
    IN  /\ r.pc = "bs_check"
        /\ IF s \notin Seats
           THEN /\ Goto(t, [r EXCEPT !.pc = "bs_ret", !.err = ErrSeatNotFound])
                /\ seatStatus' = seatStatus
           ELSE IF ~IsAvailable(seatStatus[s])
           THEN /\ Goto(t, [r EXCEPT !.pc = "bs_ret",
                                     !.err = ErrSeatNotAvailable])
                /\ seatStatus' = seatStatus
           ELSE /\ seatStatus' = [seatStatus EXCEPT ![s] = SeatStatusBlocked]
                /\ IF r.i < Len(r.seatIDs)
                   THEN Goto(t, [r EXCEPT !.i = r.i + 1, !.mine = @ \cup {s}])
                   ELSE Goto(t, [r EXCEPT !.pc = "bs_ret",
                                          !.mine = @ \cup {s}])
        /\ UNCHANGED <<now, screen, svcMutex, screenW, screenR, bookings,
                       payments, notified, shows, race>>

\* first loop: one iteration, "First check if all seats are available"
BS_Check(t) ==
    LET r == th[t]
        s == r.seatIDs[r.i]
    IN  /\ r.pc = "bs_check"
        /\ IF s \notin Seats
           THEN Goto(t, [r EXCEPT !.pc = "bs_ret", !.err = ErrSeatNotFound])
           ELSE IF ~IsAvailable(seatStatus[s])
           THEN Goto(t, [r EXCEPT !.pc = "bs_ret", !.err = ErrSeatNotAvailable])
           ELSE IF r.i < Len(r.seatIDs)
           THEN Goto(t, [r EXCEPT !.i = r.i + 1])
           ELSE Goto(t, [r EXCEPT !.pc = "bs_block", !.i = 1])
        /\ UNCHANGED <<now, seatStatus, screen, svcMutex, screenW, screenR,
                       bookings, payments, notified, shows, race>>

\* where the rollback loop goes for index j when seatIDs[i] failed to block:
\* "if seatIDs[i] == seatID { break }"
RollbackNext(r, j) ==
    IF j > Len(r.seatIDs) \/ r.seatIDs[j] = r.seatIDs[r.i]
    THEN [r EXCEPT !.pc = "bs_ret", !.j = 0]
    ELSE [r EXCEPT !.pc = "bs_rollback", !.j = j]

\* second loop: one iteration, s.Seats[seatID].Block()
BS_Block(t) ==
    LET r == th[t]
        s == r.seatIDs[r.i]
        b == SeatBlock(seatStatus[s])
    IN  /\ r.pc = "bs_block"
        /\ seatStatus' = [seatStatus EXCEPT ![s] = b.Status]
        /\ IF b.err # OK
           THEN Goto(t, RollbackNext([r EXCEPT !.err = b.err], 1))
           ELSE IF r.i < Len(r.seatIDs)
           THEN Goto(t, [r EXCEPT !.i = r.i + 1, !.mine = @ \cup {s}])
           ELSE Goto(t, [r EXCEPT !.pc = "bs_ret", !.mine = @ \cup {s}])
        /\ UNCHANGED <<now, screen, svcMutex, screenW, screenR, bookings,
                       payments, notified, shows, race>>

\* "Rollback previous blocks": s.Seats[seatIDs[i]].Unblock()
BS_Rollback(t) ==
    LET r == th[t]
        s == r.seatIDs[r.j]
        u == SeatUnblock(seatStatus[s])
    IN  /\ r.pc = "bs_rollback"
        /\ seatStatus' = [seatStatus EXCEPT ![s] = u.Status]
        /\ Goto(t, RollbackNext(
                     [r EXCEPT !.mine = IF u.err = OK THEN @ \ {s} ELSE @],
                     r.j + 1))
        /\ UNCHANGED <<now, screen, svcMutex, screenW, screenR, bookings,
                       payments, notified, shows, race>>

\* the error is returned without the compensation
CBRollbackSkipped(r, i) == [r EXCEPT !.pc = "cb_ret", !.i = 0]

\* where CreateBooking's rollbackSeatBlocking goes for index i
CBRollbackNext(r, i) ==
    IF i > Len(r.seatIDs)
    THEN [r EXCEPT !.pc = "cb_ret", !.i = 0]
    ELSE [r EXCEPT !.pc = "cb_rb_get", !.i = i]

\* BlockSeats returning without "defer s.seatsMutex.Unlock()"
BS_ReturnLocked(t) ==
    LET r == th[t]
    IN  /\ r.pc = "bs_ret"
        /\ race' = RaceReturn(t, r.err)
        /\ IF r.op = "BlockSeats"
           THEN Goto(t, Idle)
           ELSE IF r.err # OK
           THEN Goto(t, [r EXCEPT !.pc = "cb_ret", !.i = 0])
           ELSE Goto(t, [r EXCEPT !.pc = "cb_new", !.i = 0])
        /\ UNCHANGED <<now, seatStatus, screen, svcMutex, screenW, screenR,
                       bookings, payments, notified, shows>>

\* defer s.seatsMutex.Unlock(); BlockSeats returns th[t].err to its caller
BS_Return(t) ==
    LET r == th[t]
    IN  /\ r.pc = "bs_ret"
        /\ screenW' = NoThread
        /\ race' = RaceReturn(t, r.err)
        /\ IF r.op = "BlockSeats"
           THEN Goto(t, Idle)
           ELSE IF r.err # OK
           THEN Goto(t, [r EXCEPT !.pc = "cb_ret", !.i = 0])
           ELSE Goto(t, [r EXCEPT !.pc = "cb_new", !.i = 0])
        /\ UNCHANGED <<now, seatStatus, screen, svcMutex, screenR, bookings,
                       payments, notified, shows>>

----------------------------------------------------------------------------
(* Screen.GetAvailableSeats *)

\* s.seatsMutex.RLock()
GA_Start(t) ==
    /\ th[t].pc = "idle"
    /\ CanRLock
    /\ screenR' = screenR \cup {t}
    /\ Goto(t, [Idle EXCEPT !.pc = "ga_scan", !.op = "GetAvailableSeats"])
    /\ UNCHANGED <<now, seatStatus, screen, svcMutex, screenW, bookings,
                   payments, notified, shows, race>>

\* one iteration of "for _, seat := range s.Seats", in the map's order:
\* seat.IsAvailable(), append
GA_Scan(t) ==
    LET r == th[t]
    IN  /\ r.pc = "ga_scan"
        /\ \E s \in Seats \ r.seen :
             Goto(t, [r EXCEPT
                        !.pc = IF r.seen \cup {s} = Seats THEN "ga_ret"
                               ELSE "ga_scan",
                        !.seen = @ \cup {s},
                        !.seatIDs = IF IsAvailable(seatStatus[s])
                                    THEN Append(@, s) ELSE @])
        /\ UNCHANGED <<now, seatStatus, screen, svcMutex, screenW, screenR,
                       bookings, payments, notified, shows, race>>

\* GetAvailableSeats returning without "defer s.seatsMutex.RUnlock()"
GA_ReturnHeld(t) ==
    /\ th[t].pc = "ga_ret"
    /\ Goto(t, Idle)
    /\ UNCHANGED <<now, seatStatus, screen, svcMutex, screenW, screenR,
                   bookings, payments, notified, shows, race>>

\* defer s.seatsMutex.RUnlock(); GetAvailableSeats returns th[t].seatIDs
GA_Return(t) ==
    /\ th[t].pc = "ga_ret"
    /\ screenR' = screenR \ {t}
    /\ Goto(t, Idle)
    /\ UNCHANGED <<now, seatStatus, screen, svcMutex, screenW, bookings,
                   payments, notified, shows, race>>

----------------------------------------------------------------------------
(* BookingServiceImpl.CreateBooking *)

\* the show and screen checks at the head of CreateBooking
ShowCheck(showID, t) ==
    IF showID \notin DOMAIN Shows THEN ErrShowNotFound
    ELSE IF ~CanBeBooked(Shows[showID], t) THEN ErrShowNotBookable
    ELSE IF Shows[showID].ScreenID \notin Screens THEN ErrScreenNotFound
    ELSE OK

\* CreateBooking entered without waiting for bs.mutex
CB_StartUnlocked(t) ==
    /\ th[t].pc = "idle"
    /\ Len(bookings) < MaxBookings
    /\ svcMutex' = t
    /\ \E showID \in ShowIDs :
         LET e == ShowCheck(showID, now)
         IN  IF e # OK
             THEN Goto(t, [Idle EXCEPT !.pc = "cb_ret",
                                       !.op = "CreateBooking",
                                       !.showID = showID, !.err = e])
             ELSE Goto(t, [Idle EXCEPT !.pc = "cb_getseat",
                                       !.op = "CreateBooking",
                                       !.showID = showID])
    /\ UNCHANGED <<now, seatStatus, screen, screenW, screenR, bookings,
                   payments, notified, shows, race>>

\* bs.mutex.Lock(); show lookup, CanBeBooked, screen lookup.
\* The caller's seat list is revealed one element at a time as the price loop
\* reads it: an element not read yet has influenced nothing.
CB_Start(t) ==
    /\ th[t].pc = "idle"
    /\ svcMutex = NoThread
    /\ Len(bookings) < MaxBookings
    /\ svcMutex' = t
    /\ \E showID \in ShowIDs :
         LET e == ShowCheck(showID, now)
         IN  IF e # OK
             THEN Goto(t, [Idle EXCEPT !.pc = "cb_ret",
                                       !.op = "CreateBooking",
                                       !.showID = showID, !.err = e])
             ELSE Goto(t, [Idle EXCEPT !.pc = "cb_getseat",
                                       !.op = "CreateBooking",
                                       !.showID = showID])
    /\ UNCHANGED <<now, seatStatus, screen, screenW, screenR, bookings,
                   payments, notified, shows, race>>

\* price loop: the list ends, or seat, err := screen.GetSeat(seatID)
CB_GetSeat(t) ==
    LET r == th[t]
    IN  /\ r.pc = "cb_getseat"
        /\ \/ Goto(t, [r EXCEPT !.pc = "cb_block", !.i = 0])
           \/ /\ Len(r.seatIDs) < MaxSeatIDs
              /\ CanRLock
              /\ \E s \in SeatIDs :
                   IF s \notin Seats
                   THEN Goto(t, [r EXCEPT !.pc = "cb_ret",
                                          !.err = ErrSeatNotFound,
                                          !.seatIDs = Append(@, s),
                                          !.i = 0, !.total = 0])
                   ELSE Goto(t, [r EXCEPT !.pc = "cb_avail",
                                          !.seatIDs = Append(@, s),
                                          !.i = Len(r.seatIDs) + 1])
        /\ UNCHANGED <<now, seatStatus, screen, svcMutex, screenW, screenR,
                       bookings, payments, notified, shows, race>>

\* the price loop assigning instead of accumulating
AddPriceAssign(total, s) == Price[s]

\* totalAmount += seat.GetPrice()
AddPrice(total, s) == total + Price[s]

\* price loop: seat.IsAvailable(), totalAmount += seat.GetPrice()
CB_Avail(t) ==
    LET r == th[t]
        s == r.seatIDs[r.i]
    IN  /\ r.pc = "cb_avail"
        /\ IF ~IsAvailable(seatStatus[s])
           THEN Goto(t, [r EXCEPT !.pc = "cb_ret",
                                  !.err = ErrSeatNotAvailable,
                                  !.i = 0, !.total = 0])
           ELSE Goto(t, [r EXCEPT !.pc = "cb_getseat",
                                  !.total = AddPrice(r.total, s)])
        /\ UNCHANGED <<now, seatStatus, screen, svcMutex, screenW, screenR,
                       bookings, payments, notified, shows, race>>

\* booking, err := models.NewBooking(userID, showID, seatIDs, totalAmount)
CB_New(t) ==
    LET r == th[t]
    IN  /\ r.pc = "cb_new"
        /\ \E userID \in UserIDs :
             LET n == NewBooking(Len(bookings) + 1, userID, r.showID, r.seatIDs,
                                 r.total, now)
             IN  IF n.err # OK
                 THEN Goto(t, CBRollbackNext([r EXCEPT !.err = n.err], 1))
                 ELSE Goto(t, [r EXCEPT !.pc = "cb_create",
                                        !.booking = n.booking])
        /\ UNCHANGED <<now, seatStatus, screen, svcMutex, screenW, screenR,
                       bookings, payments, notified, shows, race>>

\* bookingRepo.Create with the error test inverted: the compensation runs
\* although the record was stored
CB_CreateInverted(t) ==
    LET r == th[t]
    IN  /\ r.pc = "cb_create"
        /\ bookings' = Append(bookings, r.booking)
        /\ Goto(t, CBRollbackNext([r EXCEPT !.err = ErrStore,
                                            !.booking = NoBooking], 1))
        /\ UNCHANGED <<now, seatStatus, screen, svcMutex, screenW, screenR,
                       payments, notified, shows, race>>

\* bs.bookingRepo.Create(booking); a store may fail
CB_Create(t) ==
    LET r == th[t]
    IN  /\ r.pc = "cb_create"
        /\ \E fail \in BOOLEAN :
             IF fail
             THEN /\ Goto(t, CBRollbackNext(
                               [r EXCEPT !.err = ErrStore,
                                         !.booking = NoBooking], 1))
                  /\ bookings' = bookings
             ELSE /\ Goto(t, [r EXCEPT !.pc = "cb_update",
                                       !.bid = r.booking.ID,
                                       !.booking = NoBooking])
                  /\ bookings' = Append(bookings, r.booking)
        /\ UNCHANGED <<now, seatStatus, screen, svcMutex, screenW, screenR,
                       payments, notified, shows, race>>

\* rollbackSeatBlocking: seat, err := screen.GetSeat(seatID)
CB_RollbackGet(t) ==
    LET r == th[t]
    IN  /\ r.pc = "cb_rb_get"
        /\ CanRLock
        /\ IF r.seatIDs[r.i] \notin Seats
           THEN Goto(t, CBRollbackNext(r, r.i + 1))
           ELSE Goto(t, [r EXCEPT !.pc = "cb_rb_unblock"])
        /\ UNCHANGED <<now, seatStatus, screen, svcMutex, screenW, screenR,
                       bookings, payments, notified, shows, race>>

\* rollbackSeatBlocking: seat.Unblock()
CB_RollbackUnblock(t) ==
    LET r == th[t]
        s == r.seatIDs[r.i]
        u == SeatUnblock(seatStatus[s])
    IN  /\ r.pc = "cb_rb_unblock"
        /\ seatStatus' = [seatStatus EXCEPT ![s] = u.Status]
        /\ Goto(t, CBRollbackNext(
                     [r EXCEPT !.mine = IF u.err = OK THEN @ \ {s} ELSE @],
                     r.i + 1))
        /\ UNCHANGED <<now, screen, svcMutex, screenW, screenR, bookings,
                       payments, notified, shows, race>>

\* CreateBooking failing when the screen store's Update fails
CB_UpdateEscalated(t) ==
    LET r == th[t]
    IN  /\ r.pc = "cb_update"
        /\ \E fail \in BOOLEAN :
             Goto(t, [r EXCEPT !.pc = "cb_ret",
                               !.upd = IF fail THEN ErrStore ELSE OK,
                               !.err = IF fail THEN ErrStore ELSE OK])
        /\ UNCHANGED <<now, seatStatus, screen, svcMutex, screenW, screenR,
                       bookings, payments, notified, shows, race>>

\* bs.screenRepo.Update(screen): a failure (kept in upd) is only logged
CB_Update(t) ==
    LET r == th[t]
    IN  /\ r.pc = "cb_update"
        /\ \E fail \in BOOLEAN :
             Goto(t, [r EXCEPT !.pc = "cb_ret",
                               !.upd = IF fail THEN ErrStore ELSE OK])
        /\ UNCHANGED <<now, seatStatus, screen, svcMutex, screenW, screenR,
                       bookings, payments, notified, shows, race>>

\* defer bs.mutex.Unlock(); CreateBooking returns (booking th[t].bid, th[t].err)
CB_Return(t) ==
    /\ th[t].pc = "cb_ret"
    /\ svcMutex' = NoThread
    /\ Goto(t, Idle)
    /\ UNCHANGED <<now, seatStatus, screen, screenW, screenR, bookings,
                   payments, notified, shows, race>>

----------------------------------------------------------------------------
(* BookingServiceImpl.ConfirmBooking *)

\* booking ids a caller may pass
BookingArgs == KnownBookings \cup {UnknownBooking}

\* ConfirmBooking going on to book the seats although booking.Confirm failed
CF_ConfirmUnchecked(t) ==
    /\ th[t].pc = "idle"
    /\ \E bid \in BookingArgs, paymentID \in PaymentIDs :
         IF bid \notin 1..Len(bookings)
         THEN /\ Goto(t, [Idle EXCEPT !.pc = "cf_ret", !.op = "ConfirmBooking",
                                      !.bid = bid, !.err = ErrBookingNotFound])
              /\ bookings' = bookings
         ELSE LET c == BookingConfirm(bookings[bid], paymentID, now)
              IN  /\ bookings' = [bookings EXCEPT ![bid] = c.booking]
                  /\ Goto(t, [Idle EXCEPT
                                !.pc = "cf_update",
                                !.op = "ConfirmBooking", !.bid = bid,
                                !.paymentID = IF c.err # OK THEN ""
                                              ELSE paymentID,
                                !.err = c.err])
    /\ UNCHANGED <<now, seatStatus, screen, svcMutex, screenW, screenR,
                   payments, notified, shows, race>>

\* bs.bookingRepo.GetByID(bookingID); booking.Confirm(paymentID).
\* The lookup's answer for an id does not change once the booking is stored,
\* so lookup and Confirm are one step.  The call keeps paymentID while it
\* goes on; a call that fails here has no further use for it.
CF_Confirm(t) ==
    /\ th[t].pc = "idle"
    /\ \E bid \in BookingArgs, paymentID \in PaymentIDs :
         IF bid \notin 1..Len(bookings)
         THEN /\ Goto(t, [Idle EXCEPT !.pc = "cf_ret", !.op = "ConfirmBooking",
                                      !.bid = bid, !.err = ErrBookingNotFound])
              /\ bookings' = bookings
         ELSE LET c == BookingConfirm(bookings[bid], paymentID, now)
              IN  /\ bookings' = [bookings EXCEPT ![bid] = c.booking]
                  /\ Goto(t, [Idle EXCEPT
                                !.pc = IF c.err # OK THEN "cf_ret"
                                       ELSE "cf_update",
                                !.op = "ConfirmBooking", !.bid = bid,
                                !.paymentID = IF c.err # OK THEN ""
                                              ELSE paymentID,
                                !.err = c.err])
    /\ UNCHANGED <<now, seatStatus, screen, svcMutex, screenW, screenR,
                   payments, notified, shows, race>>

\* "Book all seats" leaving out the last seat of the list
CFBookNextButLast(r, i) ==
    IF i >= Len(bookings[r.bid].SeatIDs)
    THEN [r EXCEPT !.pc = "cf_notify", !.i = 0]
    ELSE [r EXCEPT !.pc = "cf_getseat", !.i = i]

\* where the "Book all seats" loop goes for index i
CFBookNext(r, i) ==
    IF i > Len(bookings[r.bid].SeatIDs)
    THEN [r EXCEPT !.pc = "cf_notify", !.i = 0]
    ELSE [r EXCEPT !.pc = "cf_getseat", !.i = i]

\* bs.bookingRepo.Update(booking); then the show and the screen are looked up
CF_Update(t) ==
    LET r == th[t]
        show == bookings[r.bid].ShowID
    IN  /\ r.pc = "cf_update"
        /\ \E fail \in BOOLEAN :
             IF fail
             THEN Goto(t, [r EXCEPT !.pc = "cf_ret", !.err = ErrStore])
             ELSE IF show \notin DOMAIN Shows
             THEN Goto(t, [r EXCEPT !.pc = "cf_ret", !.err = ErrShowNotFound])
             ELSE IF Shows[show].ScreenID \notin Screens
             THEN Goto(t, [r EXCEPT !.pc = "cf_ret", !.err = ErrScreenNotFound])
             ELSE Goto(t, CFBookNext(r, 1))
        /\ UNCHANGED <<now, seatStatus, screen, svcMutex, screenW, screenR,
                       bookings, payments, notified, shows, race>>

\* screen.GetSeat without "defer s.seatsMutex.RUnlock()"
CF_GetSeatHeld(t) ==
    LET r == th[t]
    IN  /\ r.pc = "cf_getseat"
        /\ CanRLock
        /\ screenR' = screenR \cup {t}
        /\ IF bookings[r.bid].SeatIDs[r.i] \notin Seats
           THEN Goto(t, CFBookNext(r, r.i + 1))
           ELSE Goto(t, [r EXCEPT !.pc = "cf_book"])
        /\ UNCHANGED <<now, seatStatus, screen, svcMutex, screenW, bookings,
                       payments, notified, shows, race>>

\* "Book all seats": seat, err := screen.GetSeat(seatID)
CF_GetSeat(t) ==
    LET r == th[t]
    IN  /\ r.pc = "cf_getseat"
        /\ CanRLock
        /\ IF bookings[r.bid].SeatIDs[r.i] \notin Seats
           THEN Goto(t, CFBookNext(r, r.i + 1))
           ELSE Goto(t, [r EXCEPT !.pc = "cf_book"])
        /\ UNCHANGED <<now, seatStatus, screen, svcMutex, screenW, screenR,
                       bookings, payments, notified, shows, race>>

\* "Book all seats" giving up at the first seat that cannot be booked
CF_BookEscalated(t) ==
    LET r == th[t]
        s == bookings[r.bid].SeatIDs[r.i]
        b == SeatBook(seatStatus[s])
    IN  /\ r.pc = "cf_book"
        /\ seatStatus' = [seatStatus EXCEPT ![s] = b.Status]
        /\ IF b.err # OK
           THEN Goto(t, [r EXCEPT !.pc = "cf_ret", !.err = b.err])
           ELSE Goto(t, CFBookNext(r, r.i + 1))
        /\ UNCHANGED <<now, screen, svcMutex, screenW, screenR, bookings,
                       payments, notified, shows, race>>

\* "Book all seats": seat.Book(); an error is only logged
CF_Book(t) ==
    LET r == th[t]
        s == bookings[r.bid].SeatIDs[r.i]
    IN  /\ r.pc = "cf_book"
        /\ seatStatus' = [seatStatus EXCEPT ![s] = SeatBook(seatStatus[s]).Status]
        /\ Goto(t, CFBookNext(r, r.i + 1))
        /\ UNCHANGED <<now, screen, svcMutex, screenW, screenR, bookings,
                       payments, notified, shows, race>>

\* ConfirmBooking returning what the notification sink returned
CF_NotifyPropagated(t) ==
    LET r == th[t]
    IN  /\ r.pc = "cf_notify"
        /\ \E updateFails \in BOOLEAN, sink \in {OK, ErrNotify} :
             /\ notified' = [notified EXCEPT ![r.bid] = @ + 1]
             /\ Goto(t, [r EXCEPT !.pc = "cf_ret", !.sink = sink,
                                  !.upd = IF updateFails THEN ErrStore
                                          ELSE OK,
                                  !.err = sink])
        /\ UNCHANGED <<now, seatStatus, screen, svcMutex, screenW, screenR,
                       bookings, payments, shows, race>>

\* bs.screenRepo.Update(screen), a failure (kept in upd) is only logged; then
\* bs.notificationSvc.SendBookingConfirmation, whose result (kept in sink) is
\* dropped
CF_Notify(t) ==
    LET r == th[t]
    IN  /\ r.pc = "cf_notify"
        /\ \E updateFails \in BOOLEAN, sink \in {OK, ErrNotify} :
             /\ notified' = [notified EXCEPT ![r.bid] = @ + 1]
             /\ Goto(t, [r EXCEPT !.pc = "cf_ret", !.sink = sink,
                                  !.upd = IF updateFails THEN ErrStore
                                          ELSE OK,
                                  !.err = OK])
        /\ UNCHANGED <<now, seatStatus, screen, svcMutex, screenW, screenR,
                       bookings, payments, shows, race>>

\* ConfirmBooking returns th[t].err
CF_Return(t) ==
    /\ th[t].pc = "cf_ret"
    /\ Goto(t, Idle)
    /\ UNCHANGED <<now, seatStatus, screen, svcMutex, screenW, screenR,
                   bookings, payments, notified, shows, race>>

----------------------------------------------------------------------------
(* PaymentServiceImpl.ProcessPayment *)

\* calls of ProcessPayment that have not stored their payment record yet
PaymentsToCome == Cardinality({t \in Threads : th[t].pc = "pp_expired"
                                               \/ th[t].pc = "pp_create"})

\* ps.bookingRepo.GetByID(bookingID); booking.GetStatus()
PP_Start(t) ==
    /\ th[t].pc = "idle"
    /\ Len(payments) + PaymentsToCome < MaxPayments
    /\ \E bid \in BookingArgs :
         IF bid \notin 1..Len(bookings)
         THEN Goto(t, [Idle EXCEPT !.pc = "pp_ret", !.op = "ProcessPayment",
                                   !.bid = bid, !.err = ErrBookingNotFound])
         ELSE IF bookings[bid].Status # BookingStatusPending
         THEN Goto(t, [Idle EXCEPT !.pc = "pp_ret", !.op = "ProcessPayment",
                                   !.bid = bid, !.err = ErrBookingNotPending])
         ELSE Goto(t, [Idle EXCEPT !.pc = "pp_expired",
                                   !.op = "ProcessPayment", !.bid = bid])
    /\ UNCHANGED <<now, seatStatus, screen, svcMutex, screenW, screenR,
                   bookings, payments, notified, shows, race>>

\* ProcessPayment expiring the booking it finds past its deadline
PP_ExpiredMarked(t) ==
    LET r == th[t]
    IN  /\ r.pc = "pp_expired"
        /\ IF IsExpired(bookings[r.bid], now)
           THEN /\ Goto(t, [r EXCEPT !.pc = "pp_ret",
                                     !.err = ErrBookingExpired])
                /\ bookings' = [bookings EXCEPT ![r.bid] =
                                  BookingExpire(bookings[r.bid]).booking]
           ELSE /\ Goto(t, [r EXCEPT !.pc = "pp_create"])
                /\ bookings' = bookings
        /\ UNCHANGED <<now, seatStatus, screen, svcMutex, screenW, screenR,
                       payments, notified, shows, race>>

\* booking.IsExpired()
PP_Expired(t) ==
    LET r == th[t]
    IN  /\ r.pc = "pp_expired"
        /\ IF IsExpired(bookings[r.bid], now)
           THEN Goto(t, [r EXCEPT !.pc = "pp_ret", !.err = ErrBookingExpired])
           ELSE Goto(t, [r EXCEPT !.pc = "pp_create"])
        /\ UNCHANGED <<now, seatStatus, screen, svcMutex, screenW, screenR,
                       bookings, payments, notified, shows, race>>

\* models.NewPayment; Calls counts the gateway calls made for the payment
NewPayment(bookingID, userID, amount) ==
    IF bookingID = 0 \/ userID = "" \/ amount <= 0
    THEN [payment |-> [BookingID |-> 0, Status |-> "", Calls |-> 0],
          err |-> ErrInvalidPaymentData]
    ELSE [payment |-> [BookingID |-> bookingID,
                       Status |-> PaymentStatusPending, Calls |-> 0],
          err |-> OK]

\* models.NewPayment; ps.paymentRepo.Create(payment)
PP_Create(t) ==
    LET r == th[t]
        b == bookings[r.bid]
        n == NewPayment(r.bid, b.UserID, b.TotalAmount)
    IN  /\ r.pc = "pp_create"
        /\ \E fail \in BOOLEAN :
             IF n.err # OK
             THEN /\ Goto(t, [r EXCEPT !.pc = "pp_ret", !.err = n.err])
                  /\ payments' = payments
             ELSE IF fail
             THEN /\ Goto(t, [r EXCEPT !.pc = "pp_ret", !.err = ErrStore])
                  /\ payments' = payments
             ELSE /\ Goto(t, [r EXCEPT !.pc = "pp_gateway",
                                       !.pid = Len(payments) + 1])
                  /\ payments' = Append(payments, n.payment)
        /\ UNCHANGED <<now, seatStatus, screen, svcMutex, screenW, screenR,
                       bookings, notified, shows, race>>

\* what the payment gateway may answer
GatewayOutcomes == {"error", "declined", "success"}

\* ProcessPayment calling the gateway again after an error
PP_GatewayRetrying(t) ==
    LET r == th[t]
    IN  /\ r.pc = "pp_gateway"
        /\ \E outcome \in GatewayOutcomes, fail \in BOOLEAN :
             /\ payments' = [payments EXCEPT
                               ![r.pid].Status =
                                  IF outcome = "success"
                                  THEN PaymentStatusSuccess
                                  ELSE PaymentStatusFailed,
                               ![r.pid].Calls = @ + 1]
             /\ IF outcome = "error" /\ payments[r.pid].Calls = 0
                THEN Goto(t, r)
                ELSE Goto(t, [r EXCEPT !.pc = "pp_ret",
                                       !.err = IF outcome = "error"
                                               THEN ErrPaymentProcessingFail
                                               ELSE IF fail THEN ErrStore
                                               ELSE OK])
        /\ UNCHANGED <<now, seatStatus, screen, svcMutex, screenW, screenR,
                       bookings, notified, shows, race>>

\* ps.paymentGateway.ProcessPayment returns; MarkSuccess / MarkFailed;
\* ps.paymentRepo.Update(payment)
PP_Gateway(t) ==
    LET r == th[t]
    IN  /\ r.pc = "pp_gateway"
        /\ \E outcome \in GatewayOutcomes, fail \in BOOLEAN :
             /\ payments' = [payments EXCEPT
                               ![r.pid].Status =
                                  IF outcome = "success"
                                  THEN PaymentStatusSuccess
                                  ELSE PaymentStatusFailed,
                               ![r.pid].Calls = @ + 1]
             /\ Goto(t, [r EXCEPT !.pc = "pp_ret",
                                  !.err = IF outcome = "error"
                                          THEN ErrPaymentProcessingFail
                                          ELSE IF fail THEN ErrStore ELSE OK])
        /\ UNCHANGED <<now, seatStatus, screen, svcMutex, screenW, screenR,
                       bookings, notified, shows, race>>

\* ProcessPayment returns (payment th[t].pid, th[t].err)
PP_Return(t) ==
    /\ th[t].pc = "pp_ret"
    /\ Goto(t, Idle)
    /\ UNCHANGED <<now, seatStatus, screen, svcMutex, screenW, screenR,
                   bookings, payments, notified, shows, race>>

----------------------------------------------------------------------------
(* ShowServiceImpl.CreateShow *)

\* calls of CreateShow that may still store a show
ShowsToCome == Cardinality({t \in Threads : th[t].pc = "cs_check"
                                            \/ th[t].pc = "cs_create"})

\* the lookups at the head of CreateShow
ShowArgsCheck(movieID, theatreID, screenID) ==
    IF movieID \notin DOMAIN Movies THEN ErrMovieNotFound
    ELSE IF theatreID \notin Theatres THEN ErrTheatreNotFound
    ELSE IF screenID \notin Screens THEN ErrScreenNotFound
    ELSE IF TheatreOf[screenID] # theatreID THEN ErrInvalidShowData
    ELSE OK

\* movieRepo.GetByID, theatreRepo.GetByID, screenRepo.GetByID, the test of
\* screen.TheatreID; endTime := startTime.Add(movie.Duration)
CS_Start(t) ==
    /\ th[t].pc = "idle"
    /\ Len(shows) + ShowsToCome < MaxShows
    /\ \E movieID \in MovieIDs, theatreID \in TheatreIDs,
          screenID \in ScreenIDs, startTime \in StartTimes :
         LET e == ShowArgsCheck(movieID, theatreID, screenID)
         IN  IF e # OK
             THEN Goto(t, [Idle EXCEPT !.pc = "cs_ret", !.op = "CreateShow",
                                       !.err = e])
             ELSE Goto(t, [Idle EXCEPT !.pc = "cs_check",
                                       !.op = "CreateShow",
                                       !.screenID = screenID,
                                       !.startTime = startTime,
                                       !.endTime = startTime
                                                     + Movies[movieID]])
    /\ UNCHANGED <<now, seatStatus, screen, svcMutex, screenW, screenR,
                   bookings, payments, notified, shows, race>>

\* MemoryShowRepository.CheckConflict
CheckConflict(screenID, startTime, endTime) ==
    \E k \in 1..Len(shows) :
        /\ shows[k].ScreenID = screenID
        /\ startTime < shows[k].EndTime
        /\ endTime > shows[k].StartTime

\* hasConflict, err := ss.showRepo.CheckConflict(screenID, startTime, endTime)
CS_Check(t) ==
    LET r == th[t]
    IN  /\ r.pc = "cs_check"
        /\ IF CheckConflict(r.screenID, r.startTime, r.endTime)
           THEN Goto(t, [r EXCEPT !.pc = "cs_ret", !.err = ErrInvalidShowTime])
           ELSE Goto(t, [r EXCEPT !.pc = "cs_create"])
        /\ UNCHANGED <<now, seatStatus, screen, svcMutex, screenW, screenR,
                       bookings, payments, notified, shows, race>>

\* models.NewShow; id stands for uuid.New(), t for time.Now().  The movie,
\* theatre and screen ids were found in the stores and are not empty.
NewShow(id, screenID, startTime, basePrice, movieDuration, t) ==
    IF screenID = "" \/ basePrice <= 0
    THEN [show |-> [ID |-> 0, ScreenID |-> "", StartTime |-> 0, EndTime |-> 0],
          err |-> ErrInvalidShowData]
    ELSE IF startTime < t
    THEN [show |-> [ID |-> 0, ScreenID |-> "", StartTime |-> 0, EndTime |-> 0],
          err |-> ErrInvalidShowTime]
    ELSE [show |-> [ID |-> id, ScreenID |-> screenID, StartTime |-> startTime,
                    EndTime |-> startTime + movieDuration],
          err |-> OK]

\* models.NewShow; ss.showRepo.Create(show); a store may fail
CS_Create(t) ==
    LET r == th[t]
    IN  /\ r.pc = "cs_create"
        /\ \E basePrice \in BasePrices, fail \in BOOLEAN :
             LET n == NewShow(Len(shows) + 1, r.screenID, r.startTime,
                              basePrice, r.endTime - r.startTime, now)
             IN  IF n.err # OK
                 THEN /\ Goto(t, [r EXCEPT !.pc = "cs_ret", !.err = n.err])
                      /\ shows' = shows
                 ELSE IF fail
                 THEN /\ Goto(t, [r EXCEPT !.pc = "cs_ret", !.err = ErrStore])
                      /\ shows' = shows
                 ELSE /\ Goto(t, [r EXCEPT !.pc = "cs_ret",
                                           !.showID = n.show.ID])
                      /\ shows' = Append(shows, n.show)
        /\ UNCHANGED <<now, seatStatus, screen, svcMutex, screenW, screenR,
                       bookings, payments, notified, race>>

\* CreateShow returns (show th[t].showID, th[t].err)
CS_Return(t) ==
    /\ th[t].pc = "cs_ret"
    /\ Goto(t, Idle)
    /\ UNCHANGED <<now, seatStatus, screen, svcMutex, screenW, screenR,
                   bookings, payments, notified, shows, race>>

----------------------------------------------------------------------------
(* Screen.AddSeat *)

\* calls of AddSeat that have not incremented Capacity yet
SeatsToCome == Cardinality({t \in Threads : th[t].op = "AddSeat"
                                           /\ th[t].pc # "as_ret"})

\* a caller starts Screen.AddSeat(seat) and reaches s.seatsMutex.Lock().
\* The seat is the one stored under its id, passed again, or a seat fresh
\* from NewSeat.
AS_Start(t) ==
    /\ th[t].pc = "idle"
    /\ screen.Capacity + SeatsToCome < MaxCapacity
    /\ \E id \in SeatIDs :
         Goto(t, [Idle EXCEPT !.pc = "as_lock", !.op = "AddSeat",
                              !.seatIDs = <<id>>])
    /\ UNCHANGED <<now, seatStatus, screen, svcMutex, screenW, screenR,
                   bookings, payments, notified, shows, race>>

\* s.seatsMutex.Lock()
AS_Lock(t) ==
    /\ th[t].pc = "as_lock"
    /\ CanLock
    /\ screenW' = t
    /\ Goto(t, [th[t] EXCEPT !.pc = "as_put"])
    /\ UNCHANGED <<now, seatStatus, screen, svcMutex, screenR, bookings,
                   payments, notified, shows, race>>

\* s.Seats[seat.ID] = seat
AS_Put(t) ==
    LET id == th[t].seatIDs[1]
    IN  /\ th[t].pc = "as_put"
        /\ screen' = [screen EXCEPT !.Seats = @ \cup {id}]
        /\ seatStatus' = IF id \in DOMAIN seatStatus THEN seatStatus
                         ELSE (id :> SeatStatusAvailable) @@ seatStatus
        /\ Goto(t, [th[t] EXCEPT !.pc = "as_inc"])
        /\ UNCHANGED <<now, svcMutex, screenW, screenR, bookings, payments,
                       notified, shows, race>>

\* s.Capacity++
AS_Inc(t) ==
    /\ th[t].pc = "as_inc"
    /\ screen' = [screen EXCEPT !.Capacity = @ + 1]
    /\ Goto(t, [th[t] EXCEPT !.pc = "as_ret"])
    /\ UNCHANGED <<now, seatStatus, svcMutex, screenW, screenR, bookings,
                   payments, notified, shows, race>>

\* defer s.seatsMutex.Unlock()
AS_Return(t) ==
    /\ th[t].pc = "as_ret"
    /\ screenW' = NoThread
    /\ Goto(t, Idle)
    /\ UNCHANGED <<now, seatStatus, screen, svcMutex, screenR, bookings,
                   payments, notified, shows, race>>

----------------------------------------------------------------------------
(* The booking repository, called directly *)

\* models.NewBooking followed by bookingRepo.Create(booking), by a caller
\* other than CreateBooking: the seats are not looked up and not blocked
RP_Create(t) ==
    /\ th[t].pc = "idle"
    /\ Len(bookings) < MaxDirectBookings
    /\ \E seatIDs \in SeatLists :
         LET n == NewBooking(Len(bookings) + 1, "u1", "s1", seatIDs,
                             Price["A1"], now)
         IN  /\ n.err = OK
             /\ bookings' = Append(bookings, n.booking)
    /\ UNCHANGED <<now, seatStatus, screen, svcMutex, screenW, screenR,
                   payments, notified, shows, th, race>>

----------------------------------------------------------------------------
(* Booking.Cancel and Booking.Expire, called on a booking a caller holds *)

\* booking.Cancel()
BK_Cancel(t) ==
    /\ th[t].pc = "idle"
    /\ \E bid \in KnownBookings :
         LET c == BookingCancel(bookings[bid])
         IN  /\ bookings' = [bookings EXCEPT ![bid] = c.booking]
             /\ Goto(t, [Idle EXCEPT !.pc = "bk_ret", !.op = "Cancel",
                                     !.bid = bid, !.err = c.err])
    /\ UNCHANGED <<now, seatStatus, screen, svcMutex, screenW, screenR,
                   payments, notified, shows, race>>

\* booking.Expire()
BK_Expire(t) ==
    /\ th[t].pc = "idle"
    /\ \E bid \in KnownBookings :
         LET c == BookingExpire(bookings[bid])
         IN  /\ bookings' = [bookings EXCEPT ![bid] = c.booking]
             /\ Goto(t, [Idle EXCEPT !.pc = "bk_ret", !.op = "Expire",
                                     !.bid = bid, !.err = c.err])
    /\ UNCHANGED <<now, seatStatus, screen, svcMutex, screenW, screenR,
                   payments, notified, shows, race>>

\* booking.CanBeCancelled(); the answer is kept in can
BK_CanBeCancelled(t) ==
    /\ th[t].pc = "idle"
    /\ \E bid \in KnownBookings :
         Goto(t, [Idle EXCEPT !.pc = "bk_ret", !.op = "CanBeCancelled",
                              !.bid = bid,
                              !.can = CanBeCancelled(bookings[bid])])
    /\ UNCHANGED <<now, seatStatus, screen, svcMutex, screenW, screenR,
                   bookings, payments, notified, shows, race>>

\* Cancel / Expire returns th[t].err
BK_Return(t) ==
    /\ th[t].pc = "bk_ret"
    /\ Goto(t, Idle)
    /\ UNCHANGED <<now, seatStatus, screen, svcMutex, screenW, screenR,
                   bookings, payments, notified, shows, race>>

----------------------------------------------------------------------------

(* Seat.Block, Seat.Book, Seat.Unblock called on a seat a caller holds *)

\* seat.Block()
ST_Block(t) ==
    /\ th[t].pc = "idle"
    /\ \E s \in Seats :
         LET c == SeatBlock(seatStatus[s])
         IN  /\ seatStatus' = [seatStatus EXCEPT ![s] = c.Status]
             /\ Goto(t, [Idle EXCEPT !.pc = "st_ret", !.op = "Block",
                                     !.seatIDs = <<s>>, !.err = c.err])
    /\ UNCHANGED <<now, screen, svcMutex, screenW, screenR, bookings, payments,
                   notified, shows, race>>

\* seat.Book()
ST_Book(t) ==
    /\ th[t].pc = "idle"
    /\ \E s \in Seats :
         LET c == SeatBook(seatStatus[s])
         IN  /\ seatStatus' = [seatStatus EXCEPT ![s] = c.Status]
             /\ Goto(t, [Idle EXCEPT !.pc = "st_ret", !.op = "Book",
                                     !.seatIDs = <<s>>, !.err = c.err])
    /\ UNCHANGED <<now, screen, svcMutex, screenW, screenR, bookings, payments,
                   notified, shows, race>>

\* seat.Unblock()
ST_Unblock(t) ==
    /\ th[t].pc = "idle"
    /\ \E s \in Seats :
         LET c == SeatUnblock(seatStatus[s])
         IN  /\ seatStatus' = [seatStatus EXCEPT ![s] = c.Status]
             /\ Goto(t, [Idle EXCEPT !.pc = "st_ret", !.op = "Unblock",
                                     !.seatIDs = <<s>>, !.err = c.err])
    /\ UNCHANGED <<now, screen, svcMutex, screenW, screenR, bookings, payments,
                   notified, shows, race>>

\* Block / Book / Unblock returns th[t].err
ST_Return(t) ==
    /\ th[t].pc = "st_ret"
    /\ Goto(t, Idle)
    /\ UNCHANGED <<now, seatStatus, screen, svcMutex, screenW, screenR,
                   bookings, payments, notified, shows, race>>

----------------------------------------------------------------------------
(* The booking service: CreateBooking, ConfirmBooking and the Booking
   methods, called by concurrent threads while the clock advances *)

\* the steps of Screen.BlockSeats
BlockSeatsStep(t) ==
    \/ BS_Lock(t) \/ BS_Check(t) \/ BS_Block(t) \/ BS_Rollback(t)
    \/ BS_Return(t)

Step(t) ==
    \/ BlockSeatsStep(t)
    \/ CB_Start(t) \/ CB_GetSeat(t) \/ CB_Avail(t) \/ CB_New(t)
    \/ CB_Create(t) \/ CB_RollbackGet(t) \/ CB_RollbackUnblock(t)
    \/ CB_Update(t) \/ CB_Return(t)
    \/ CF_Confirm(t) \/ CF_Update(t) \/ CF_GetSeat(t) \/ CF_Book(t)
    \/ CF_Notify(t) \/ CF_Return(t)
    \/ BK_Cancel(t) \/ BK_Expire(t) \/ BK_Return(t)

Next == Tick \/ \E t \in Threads : Step(t)

Spec == Init /\ [][Next]_vars

----------------------------------------------------------------------------
(* The booking service together with the payment service.  ProcessPayment
   reads bookings and writes only the payment repository. *)

\* the steps of ProcessPayment after it has started
PaymentStep(t) ==
    PP_Expired(t) \/ PP_Create(t) \/ PP_Gateway(t) \/ PP_Return(t)

PayStep(t) ==
    \/ Len(payments) + PaymentsToCome < MaxServicePayments /\ PP_Start(t)
    \/ PaymentStep(t)

PayNext == Tick \/ \E t \in Threads : Step(t) \/ PayStep(t)

PaySpec == Init /\ [][PayNext]_vars

\* Every thread that can take a step eventually takes one, and time passes.
FairSpec ==
    /\ PaySpec
    /\ WF_vars(Tick)
    /\ \A t \in Threads : WF_vars(Step(t) \/ PayStep(t))

----------------------------------------------------------------------------
(* The screen alone: callers of Screen.BlockSeats *)

ScreenNext == \E t \in Threads : BS_Start(t) \/ BlockSeatsStep(t)

ScreenSpec == Init /\ [][ScreenNext]_vars

----------------------------------------------------------------------------
(* The booking service and the payment service together with direct callers
   of the screen: every operation that takes the coordinator lock or the
   screen lock, and ProcessPayment, which takes neither *)

ReadStep(t) == GA_Start(t) \/ GA_Scan(t) \/ GA_Return(t)

\* the steps of CreateBooking, ConfirmBooking, ProcessPayment, BlockSeats and
\* GetAvailableSeats
LockStep(t) ==
    \/ BS_Start(t) /\ Len(th'[t].seatIDs) <= MaxDirectSeatIDs
    \/ BlockSeatsStep(t)
    \/ CB_Start(t) \/ CB_GetSeat(t) \/ CB_Avail(t) \/ CB_New(t)
    \/ CB_Create(t) \/ CB_RollbackGet(t) \/ CB_RollbackUnblock(t)
    \/ CB_Update(t) \/ CB_Return(t)
    \/ CF_Confirm(t) \/ CF_Update(t) \/ CF_GetSeat(t) \/ CF_Book(t)
    \/ CF_Notify(t) \/ CF_Return(t)
    \/ ReadStep(t)
    \/ PayStep(t)

LockNext == \E t \in Threads : LockStep(t)

LockSpec == Init /\ [][LockNext]_vars

----------------------------------------------------------------------------
(* The same operations under fair scheduling, with room for
   MaxLiveBookings bookings *)

\* a step of LockSpec; CreateBooking starts only while fewer than
\* MaxLiveBookings bookings are stored
LiveStep(t) ==
    /\ LockStep(t)
    /\ th[t].pc = "idle" /\ th'[t].op = "CreateBooking" =>
          Len(bookings) < MaxLiveBookings

LiveNext == \E t \in Threads : LiveStep(t)

\* a step of a call that thread t has started
Continue(t) == th[t].pc # "idle" /\ LiveStep(t)

\* Every started call keeps running, and a thread that waits for a lock gets
\* it if the lock is free again and again: sync.Mutex and sync.RWMutex hand
\* a lock that is released to a goroutine that waits for it.
FairLockSpec ==
    /\ Init
    /\ [][LiveNext]_vars
    /\ \A t \in Threads : SF_vars(Continue(t))

----------------------------------------------------------------------------
(* ConfirmBooking on bookings whose seats the screen does not hold for them:
   bookings stored directly, seats blocked and unblocked directly *)

ConfirmNext ==
    \E t \in Threads :
        \/ RP_Create(t)
        \/ CF_Confirm(t) \/ CF_Update(t) \/ CF_GetSeat(t) \/ CF_Book(t)
        \/ CF_Notify(t) \/ CF_Return(t)
        \/ ST_Block(t) \/ ST_Unblock(t) \/ ST_Return(t)

ConfirmSpec == Init /\ [][ConfirmNext]_vars

----------------------------------------------------------------------------
(* Paying again: ProcessPayment and ConfirmBooking on a booking of one seat
   stored directly, with room for MaxPayments payment records, while the
   clock advances *)

RetryNext ==
    \/ Tick
    \/ \E t \in Threads :
          \/ RP_Create(t) /\ Len(bookings'[1].SeatIDs) = 1
          \/ PP_Start(t) \/ PaymentStep(t)
          \/ CF_Confirm(t) \/ CF_Update(t) \/ CF_GetSeat(t) \/ CF_Book(t)
          \/ CF_Notify(t) \/ CF_Return(t)

RetrySpec == Init /\ [][RetryNext]_vars

----------------------------------------------------------------------------
(* The layout of the screen: callers of Screen.AddSeat, after the set-up
   that added every seat of Seats once *)

SetupNext ==
    \E t \in Threads :
        AS_Start(t) \/ AS_Lock(t) \/ AS_Put(t) \/ AS_Inc(t) \/ AS_Return(t)

SetupSpec == Init /\ [][SetupNext]_vars

----------------------------------------------------------------------------
(* The Booking methods: CanBeCancelled, Cancel and Expire called on a booking
   of one seat stored directly, beside ConfirmBooking *)

CancelNext ==
    \E t \in Threads :
        \/ RP_Create(t) /\ Len(bookings'[1].SeatIDs) = 1
        \/ CF_Confirm(t) \/ CF_Update(t) \/ CF_GetSeat(t) \/ CF_Book(t)
        \/ CF_Notify(t) \/ CF_Return(t)
        \/ BK_CanBeCancelled(t) \/ BK_Cancel(t) \/ BK_Expire(t)
        \/ BK_Return(t)

CancelSpec == Init /\ [][CancelNext]_vars

----------------------------------------------------------------------------
(* The show service: concurrent callers of CreateShow while the clock
   advances *)

ShowNext ==
    \/ Tick
    \/ \E t \in Threads :
          CS_Start(t) \/ CS_Check(t) \/ CS_Create(t) \/ CS_Return(t)

ShowSpec == Init /\ [][ShowNext]_vars

----------------------------------------------------------------------------
(* The seats alone: callers of the Seat methods *)

SeatNext ==
    \E t \in Threads :
        ST_Block(t) \/ ST_Book(t) \/ ST_Unblock(t) \/ ST_Return(t)

SeatSpec == Init /\ [][SeatNext]_vars

----------------------------------------------------------------------------
(* Properties *)

\* the booking holds or has sold its seats
Active(b) == b.Status \in {BookingStatusPending, BookingStatusConfirmed}

\* C1: no seat id belongs to two distinct stored bookings that are both
\* Pending or Confirmed, under any interleaving of CreateBooking,
\* ConfirmBooking and ProcessPayment calls.
C1_NoSeatHeldTwice ==
    \A a \in 1..Len(bookings), b \in 1..Len(bookings) :
        a # b /\ Active(bookings[a]) /\ Active(bookings[b])
            => Range(bookings[a].SeatIDs) \cap Range(bookings[b].SeatIDs) = {}

\* two bookings are stored, one Confirmed and one Pending, each for a seat of
\* its own
C1_Witness ==
    /\ Len(bookings) = 2
    /\ bookings[1].Status = BookingStatusConfirmed
    /\ bookings[2].Status = BookingStatusPending
    /\ bookings[1].SeatIDs = <<"A2">>
    /\ bookings[2].SeatIDs = <<"A1">>
    /\ seatStatus = [s \in Seats |-> IF s = "A2" THEN SeatStatusBooked
                                     ELSE SeatStatusBlocked]

\* C2: of two concurrent Screen.BlockSeats calls whose seat sets overlap at
\* most one returns success; when both ask for the same seats and all of them
\* are Available beforehand, exactly one returns success and the other
\* returns ErrSeatNotAvailable.  Read where the second call is about to
\* return, the first call's result being recorded in race.results.
C2_OneWinner ==
    \A t \in Threads :
        (/\ race.on
         /\ t \in race.left
         /\ Len(race.results) = 1
         /\ th[t].pc = "bs_ret")
        => /\ ~(race.results[1] = OK /\ th[t].err = OK)
           /\ race.same =>
                \/ race.results[1] = OK /\ th[t].err = ErrSeatNotAvailable
                \/ race.results[1] = ErrSeatNotAvailable /\ th[t].err = OK

\* C3: when Screen.BlockSeats returns an error, every seat has the status it
\* had before the call: no seat this call blocked is left Blocked.
C3_FailedBlockSeatsRestores ==
    \A t \in Threads :
        th[t].pc = "bs_ret" /\ th[t].err # OK => th[t].mine = {}

\* the booking's status has no outgoing transition
Settled(b) == b.Status \in {BookingStatusConfirmed, BookingStatusCancelled,
                            BookingStatusExpired}

\* C4: booking status is monotonic: once a stored booking is Confirmed,
\* Cancelled or Expired, no step of any thread changes its status.
C4_StatusMonotonic ==
    [][\A b \in 1..Len(bookings) :
          Settled(bookings[b]) => bookings'[b].Status = bookings[b].Status]_vars

\* thread t calls ConfirmBooking for the stored Pending booking b strictly
\* after b's deadline
ConfirmsLate(t, b) ==
    /\ th[t].pc = "idle"
    /\ th'[t].op = "ConfirmBooking"
    /\ th'[t].bid = b
    /\ b \in 1..Len(bookings)
    /\ bookings[b].Status = BookingStatusPending
    /\ now > bookings[b].ExpiryTime

\* C5: ConfirmBooking on a Pending booking strictly after its deadline fails
\* with ErrBookingExpired and heads straight for its return, the booking
\* becomes Expired with no payment id recorded, its seats stay Blocked and no
\* notification is sent; the returning step changes none of that.
C5_LateConfirmExpires ==
    [][/\ \A t \in Threads, b \in 1..MaxBookings :
            ConfirmsLate(t, b)
               => /\ th'[t].pc = "cf_ret"
                  /\ th'[t].err = ErrBookingExpired
                  /\ bookings'[b].Status = BookingStatusExpired
                  /\ bookings'[b].PaymentID = ""
                  /\ seatStatus' = seatStatus
                  /\ \A s \in Range(bookings[b].SeatIDs) :
                        seatStatus'[s] = SeatStatusBlocked
                  /\ notified' = notified
       /\ \A t \in Threads :
            (th[t].pc = "cf_ret" /\ th[t].err = ErrBookingExpired
             /\ th'[t] # th[t])
               => /\ th'[t] = Idle
                  /\ seatStatus' = seatStatus
                  /\ notified' = notified
                  /\ bookings' = bookings]_vars

\* a late ConfirmBooking with payment id p2 is about to return
\* ErrBookingExpired for a booking that is now Expired
C5_Witness ==
    \E t \in Threads :
        /\ th[t].pc = "cf_ret"
        /\ th[t].err = ErrBookingExpired
        /\ bookings[th[t].bid].Status = BookingStatusExpired
        /\ bookings[th[t].bid].SeatIDs = <<"A1", "A2">>
        /\ now > bookings[th[t].bid].ExpiryTime

\* the stored booking with id b, NoBooking when none is stored
Stored(b) == IF b \in 1..Len(bookings) THEN bookings[b] ELSE NoBooking

\* booking b has lapsed: it is still Pending after its deadline, or a
\* payment for it failed, or a ConfirmBooking for it failed with
\* ErrBookingExpired
Lapsed(b) ==
    /\ b \in 1..Len(bookings)
    /\ \/ Stored(b).Status = BookingStatusPending
          /\ now > Stored(b).ExpiryTime
       \/ \E p \in 1..Len(payments) :
             /\ payments[p].BookingID = b
             /\ payments[p].Status = PaymentStatusFailed
       \/ \E t \in Threads : /\ th[t].pc = "cf_ret"
                             /\ th[t].bid = b
                             /\ th[t].err = ErrBookingExpired

\* C6: capacity is reclaimed: every seat of a lapsed booking eventually
\* returns to Available (unless, after a failed payment, the booking is
\* confirmed after all).
C6_CapacityReclaimed ==
    \A b \in 1..MaxBookings, s \in Seats :
        (Lapsed(b) /\ s \in Range(Stored(b).SeatIDs))
           ~> \/ seatStatus[s] = SeatStatusAvailable
              \/ Stored(b).Status = BookingStatusConfirmed

\* the sum of the prices of the seats in a list
RECURSIVE SumPrices(_)
SumPrices(seatIDs) ==
    IF seatIDs = << >> THEN 0
    ELSE Price[Head(seatIDs)] + SumPrices(Tail(seatIDs))

\* C7: every stored booking's TotalAmount is the sum of the prices of its
\* seats, in every state of its life.
C7_PriceConservation ==
    \A b \in 1..Len(bookings) :
        bookings[b].TotalAmount = SumPrices(bookings[b].SeatIDs)

\* a booking for both seats, total 250, has been confirmed and its seats sold
C7_Witness ==
    \E b \in 1..Len(bookings) :
        /\ bookings[b].SeatIDs = <<"A1", "A2">>
        /\ bookings[b].TotalAmount = 250
        /\ bookings[b].Status = BookingStatusConfirmed
        /\ \A s \in Seats : seatStatus[s] = SeatStatusBooked

\* the status changes a seat may undergo in one step
SeatEdges ==
    {<<SeatStatusAvailable, SeatStatusBlocked>>,
     <<SeatStatusBlocked, SeatStatusBooked>>,
     <<SeatStatusBlocked, SeatStatusAvailable>>}

\* what the call op must do to a seat of status st: the status after and the
\* error returned
SeatContract(op, st) ==
    CASE op = "Block" ->
           IF st = SeatStatusAvailable THEN <<SeatStatusBlocked, OK>>
           ELSE <<st, ErrSeatNotAvailable>>
      [] op = "Book" ->
           IF st = SeatStatusBlocked THEN <<SeatStatusBooked, OK>>
           ELSE <<st, ErrSeatNotBlocked>>
      [] op = "Unblock" ->
           IF st = SeatStatusBlocked THEN <<SeatStatusAvailable, OK>>
           ELSE <<st, ErrSeatNotBlocked>>

\* C8: a seat's status changes only along Available->Blocked,
\* Blocked->Booked and Blocked->Available; Block on a seat that is not
\* Available fails with ErrSeatNotAvailable, Book and Unblock on a seat that
\* is not Blocked fail with ErrSeatNotBlocked, and a failing call leaves the
\* status as it was.
C8_SeatLifecycle ==
    [][/\ \A s \in Seats :
            seatStatus'[s] # seatStatus[s]
               => <<seatStatus[s], seatStatus'[s]>> \in SeatEdges
       /\ \A t \in Threads :
            th[t].pc = "idle" /\ th'[t].pc = "st_ret"
               => LET s == th'[t].seatIDs[1]
                  IN  <<seatStatus'[s], th'[t].err>>
                         = SeatContract(th'[t].op, seatStatus[s])]_vars

\* Book has just been refused on an Available seat while the other seat is
\* Booked
C8_Witness ==
    \E t \in Threads :
        /\ th[t].pc = "st_ret"
        /\ th[t].op = "Book"
        /\ th[t].err = ErrSeatNotBlocked
        /\ seatStatus[th[t].seatIDs[1]] = SeatStatusAvailable
        /\ \E s \in Seats : seatStatus[s] = SeatStatusBooked

\* C9: when CreateBooking is about to return a booking without error, every
\* requested seat is Blocked and the booking is stored under its id, Pending,
\* for the requested seats, with a deadline of creation time plus
\* BookingTimeout.
C9_CreateBookingSuccess ==
    \A t \in Threads :
        th[t].pc = "cb_ret" /\ th[t].err = OK
           => /\ th[t].bid \in 1..Len(bookings)
              /\ LET b == bookings[th[t].bid]
                 IN  /\ b.ID = th[t].bid
                     /\ b.Status = BookingStatusPending
                     /\ b.SeatIDs = th[t].seatIDs
                     /\ b.ExpiryTime = b.BookingTime + BookingTimeout
                     /\ b.BookingTime <= now
                     /\ \A s \in Range(th[t].seatIDs) :
                           seatStatus[s] = SeatStatusBlocked

\* CreateBooking for A2 and A1 is about to return its booking, one clock
\* step after it was created
C9_Witness ==
    \E t \in Threads :
        /\ th[t].pc = "cb_ret"
        /\ th[t].err = OK
        /\ th[t].seatIDs = <<"A2", "A1">>
        /\ now = bookings[th[t].bid].BookingTime + TickStep

\* C10: when CreateBooking returns an error, no seat this call blocked is
\* left Blocked and the call stored no booking record (bid is the id of the
\* record the call stored, 0 when it stored none).
C10_FailedCreateBookingRestores ==
    \A t \in Threads :
        th[t].pc = "cb_ret" /\ th[t].err # OK
            => th[t].mine = {} /\ th[t].bid = 0

\* C11: when bookingRepo.Create fails after BlockSeats succeeded,
\* CreateBooking returns that error with every seat it had blocked Available
\* again and no record stored: none of its seats is left held without a
\* booking.
C11_CreateFailureCompensated ==
    \A t \in Threads :
        th[t].pc = "cb_ret" /\ th[t].err = ErrStore
           => /\ th[t].mine = {}
              /\ th[t].bid = 0
              /\ \A s \in Range(th[t].seatIDs) :
                    seatStatus[s] = SeatStatusAvailable

\* CreateBooking for A1 and A2 is about to return the store's error while
\* the other thread is inside ConfirmBooking
C11_Witness ==
    \E t \in Threads, u \in Threads :
        /\ th[t].pc = "cb_ret"
        /\ th[t].err = ErrStore
        /\ th[t].seatIDs = <<"A1", "A2">>
        /\ th[u].op = "ConfirmBooking"

\* thread t calls Cancel on the stored booking b
Cancels(t, b) ==
    /\ th[t].pc = "idle"
    /\ th'[t].op = "Cancel"
    /\ th'[t].bid = b
    /\ b \in 1..Len(bookings)

\* C12: Booking.Cancel succeeds only on a Pending booking, which becomes
\* Cancelled; on a Confirmed booking it returns ErrBookingAlreadyConfirmed,
\* on a Cancelled booking ErrBookingAlreadyCancelled, and on every booking
\* that is not Pending it fails and leaves the status as it was.
C12_CancelOnlyFromPending ==
    [][\A t \in Threads, b \in 1..MaxBookings :
          Cancels(t, b)
             => LET st == bookings[b].Status
                    e == th'[t].err
                IN  /\ st = BookingStatusPending
                          => /\ e = OK
                             /\ bookings'[b].Status = BookingStatusCancelled
                    /\ st = BookingStatusConfirmed
                          => e = ErrBookingAlreadyConfirmed
                    /\ st = BookingStatusCancelled
                          => e = ErrBookingAlreadyCancelled
                    /\ st # BookingStatusPending
                          => e # OK /\ bookings'[b].Status = st]_vars

\* thread t calls ConfirmBooking for the stored booking b, which is not
\* Pending
ConfirmsSettled(t, b) ==
    /\ th[t].pc = "idle"
    /\ th'[t].op = "ConfirmBooking"
    /\ th'[t].bid = b
    /\ b \in 1..Len(bookings)
    /\ bookings[b].Status # BookingStatusPending

\* C13: ConfirmBooking on a booking that is not Pending fails with
\* ErrBookingNotPending and heads straight for its return; bookings (status
\* and payment id), seat statuses and notifications stay as they were, also
\* when it returns.
C13_ConfirmNotPendingChangesNothing ==
    [][/\ \A t \in Threads, b \in 1..MaxBookings :
            ConfirmsSettled(t, b)
               => /\ th'[t].pc = "cf_ret"
                  /\ th'[t].err = ErrBookingNotPending
                  /\ bookings' = bookings
                  /\ seatStatus' = seatStatus
                  /\ notified' = notified
       /\ \A t \in Threads :
            (th[t].pc = "cf_ret" /\ th[t].err = ErrBookingNotPending
             /\ th'[t] # th[t])
               => /\ th'[t] = Idle
                  /\ bookings' = bookings
                  /\ seatStatus' = seatStatus
                  /\ notified' = notified]_vars

\* ConfirmBooking is about to return ErrBookingNotPending for a Cancelled
\* booking while the other stored booking is Confirmed
C13_Witness ==
    \E t \in Threads :
        /\ th[t].pc = "cf_ret"
        /\ th[t].err = ErrBookingNotPending
        /\ Len(bookings) = 2
        /\ bookings[th[t].bid].Status = BookingStatusCancelled
        /\ bookings[3 - th[t].bid].Status = BookingStatusConfirmed

\* C14: when ConfirmBooking is about to return success, the booking is
\* Confirmed with the payment id the caller supplied and every seat of its
\* list is Booked.
C14_ConfirmSuccess ==
    \A t \in Threads :
        th[t].pc = "cf_ret" /\ th[t].err = OK
           => LET b == bookings[th[t].bid]
              IN  /\ b.Status = BookingStatusConfirmed
                  /\ b.PaymentID = th[t].paymentID
                  /\ \A s \in Range(b.SeatIDs) :
                        seatStatus[s] = SeatStatusBooked

\* ConfirmBooking with payment id p2 is about to return success for a
\* booking of both seats at the very deadline of the booking
C14_Witness ==
    \E t \in Threads :
        /\ th[t].pc = "cf_ret"
        /\ th[t].err = OK
        /\ th[t].paymentID = "p2"
        /\ bookings[th[t].bid].SeatIDs = <<"A1", "A2">>
        /\ now = bookings[th[t].bid].ExpiryTime

\* C15: SendBookingConfirmation is called for a booking only when the
\* booking is already Confirmed, and whatever the sink returns the call
\* leaves bookings and seats as they are and ConfirmBooking returns success.
C15_NotifyAfterConfirmed ==
    [][\A t \in Threads, b \in 1..MaxBookings :
          (notified'[b] # notified[b] /\ th'[t] # th[t])
             => /\ b \in 1..Len(bookings)
                /\ bookings[b].Status = BookingStatusConfirmed
                /\ bookings' = bookings
                /\ seatStatus' = seatStatus
                /\ th'[t].sink \in {OK, ErrNotify}
                /\ th'[t].pc = "cf_ret"
                /\ th'[t].err = OK]_vars

\* the sink returned an error and ConfirmBooking is about to return success
C15_Witness ==
    \E t \in Threads :
        /\ th[t].pc = "cf_ret"
        /\ th[t].sink = ErrNotify
        /\ th[t].err = OK
        /\ notified[th[t].bid] = 1
        /\ bookings[th[t].bid].Status = BookingStatusConfirmed

\* C16: no step of ProcessPayment, whatever its outcome, changes a booking
\* (status, payment id) or a seat status.
C16_PaymentFrame ==
    [][\A t \in Threads :
          (/\ th[t].op = "ProcessPayment" \/ th'[t].op = "ProcessPayment"
           /\ th'[t] # th[t])
             => bookings' = bookings /\ seatStatus' = seatStatus]_vars

\* ProcessPayment is about to return the gateway's error: its payment is
\* Failed, its booking still Pending with its seat Blocked
C16_Witness ==
    \E t \in Threads :
        /\ th[t].pc = "pp_ret"
        /\ th[t].err = ErrPaymentProcessingFail
        /\ payments[th[t].pid].Status = PaymentStatusFailed
        /\ bookings[th[t].bid].Status = BookingStatusPending
        /\ \A s \in Range(bookings[th[t].bid].SeatIDs) :
              seatStatus[s] = SeatStatusBlocked

----------------------------------------------------------------------------
(* Locks *)

\* t holds Screen.seatsMutex, exclusively or shared
HoldsScreen(t) == screenW = t \/ t \in screenR

\* r's next statement is s.seatsMutex.Lock()
WantsLock(r) == WaitsInBlockSeats(r)

\* r's next statement may be screen.GetSeat, which takes s.seatsMutex.RLock()
WantsRLock(r) == r.pc \in {"cb_getseat", "cb_rb_get", "cf_getseat"}

\* t requests the screen lock and cannot have it now
Blocked(t) ==
    \/ WantsLock(th[t]) /\ ~CanLock
    \/ WantsRLock(th[t]) /\ ~CanRLock

\* the threads whose release of the screen lock t waits for
Blockers(t) ==
    IF WantsLock(th[t]) THEN {u \in Threads : HoldsScreen(u)}
    ELSE {u \in Threads : screenW = u}

\* positions inside Screen.BlockSeats and Screen.GetAvailableSeats, after
\* the lock is taken: only seat methods are called from there
InsideScreen(r) ==
    r.pc \in {"bs_check", "bs_block", "bs_rollback", "bs_ret", "ga_scan",
              "ga_ret"}

\* C17: locks are taken in the order coordinator, screen: the coordinator
\* lock is requested (by a thread that is in no call yet) holding no lock and
\* is held only inside CreateBooking; the screen lock is requested by a thread
\* that does not hold it and, once held, no further coordinator or screen
\* lock is requested before it is released.  Hence no deadlock: a thread in
\* a call that cannot step waits for the screen lock, and every thread it
\* waits for can step.
C17_NoDeadlock ==
    \A t \in Threads :
        /\ th[t].pc = "idle" => svcMutex # t /\ ~HoldsScreen(t)
        /\ svcMutex = t => th[t].op = "CreateBooking"
        /\ HoldsScreen(t) => InsideScreen(th[t])
        /\ WantsLock(th[t]) \/ WantsRLock(th[t]) => ~HoldsScreen(t)
        /\ th[t].pc # "idle" /\ ~ENABLED LockStep(t) => Blocked(t)
        /\ Blocked(t) =>
              /\ Blockers(t) # {}
              /\ \A u \in Blockers(t) : u # t /\ ENABLED LockStep(u)

\* CreateBooking waits for the screen lock, holding the coordinator lock,
\* while GetAvailableSeats reads under the shared lock
C17_Witness ==
    \E t, u \in Threads :
        /\ th[t].pc = "cb_block" /\ svcMutex = t
        /\ th[u].pc = "ga_scan" /\ u \in screenR
        /\ Blocked(t)

\* C18: while a thread executes the payment gateway call or the notification
\* sink it holds neither the coordinator lock nor the screen lock; seat,
\* booking and repository locks are released by the method that took them
\* before either call starts.
C18_ExternalCallsUnlocked ==
    \A t \in Threads :
        th[t].pc \in {"pp_gateway", "cf_notify"} =>
            svcMutex # t /\ ~HoldsScreen(t)

\* one thread is at the gateway call and the other at the notification sink
C18_Witness ==
    \E t, u \in Threads :
        th[t].pc = "pp_gateway" /\ th[u].pc = "cf_notify"

\* C19: every step of CreateBooking (its compensating unblock included) or
\* ConfirmBooking that changes a seat's status is taken by a thread that
\* holds the screen's exclusive lock.
C19_SeatChangesUnderScreenLock ==
    [][\A s \in Seats :
          seatStatus'[s] # seatStatus[s] =>
              \E t \in Threads : th'[t] # th[t] /\ screenW = t]_vars

\* u is inside Screen.BlockSeats and has blocked some but not all of the seats
\* it was asked for
Partial(u) ==
    /\ th[u].pc \in {"bs_block", "bs_rollback"}
    /\ th[u].mine # {}
    /\ th[u].mine # Range(th[u].seatIDs)

\* t takes a step of a screen operation that reads the seats: GetSeat (in
\* the price loop, the compensation or the confirmation) or
\* GetAvailableSeats
ReadsScreen(t) ==
    /\ th'[t] # th[t]
    /\ \/ th[t].pc \in {"cf_getseat", "cb_rb_get", "ga_scan"}
       \/ th[t].pc = "cb_getseat" /\ th'[t].seatIDs # th[t].seatIDs
       \/ th'[t].pc = "ga_scan"

\* C20: no screen operation of a reader takes a step, and so none observes
\* the seats, while a BlockSeats call is in progress with some but not all of
\* its seats blocked; no shared lock is held in such a state.
C20_NoPartialHoldObserved ==
    [][\A u \in Threads :
          Partial(u) =>
              /\ screenR = {}
              /\ \A t \in Threads : ~ReadsScreen(t)]_vars

\* BlockSeats has blocked one of two seats and a caller of
\* GetAvailableSeats has to wait
C20_Witness ==
    \E u, t \in Threads :
        /\ Partial(u)
        /\ screenW = u
        /\ th[t].pc = "idle"
        /\ ~ENABLED GA_Start(t)


\* t takes the step of ProcessPayment that calls booking.IsExpired()
ChecksExpiry(t) == th[t].pc = "pp_expired" /\ th'[t] # th[t]

\* booking b is Pending and its deadline has passed
PendingLate(b) ==
    /\ Stored(b).Status = BookingStatusPending
    /\ now > Stored(b).ExpiryTime

\* thread t takes a step of a call of op on booking b
Calls(t, op, b) ==
    /\ th'[t] # th[t]
    /\ th'[t].op = op
    /\ th'[t].bid = b

\* C21 as stated: IsExpired answers true exactly for a Pending booking whose
\* deadline is strictly past and changes nothing, and a Pending booking past
\* its deadline stays Pending until Confirm or Expire is called on it.
C21_LazyExpiryAsStated ==
    [][/\ \A t \in Threads :
             ChecksExpiry(t) =>
                 /\ bookings' = bookings
                 /\ th'[t].err = ErrBookingExpired <=> PendingLate(th[t].bid)
       /\ \A b \in 1..Len(bookings) :
             PendingLate(b) /\ bookings'[b] # bookings[b] =>
                 \E t \in Threads : \/ Calls(t, "ConfirmBooking", b)
                                    \/ Calls(t, "Expire", b)]_vars

\* C21, amended: IsExpired answers true exactly for a Pending booking whose
\* deadline is strictly past and changes nothing, and a Pending booking past
\* its deadline stays Pending until Confirm, Expire or Cancel is called on
\* it.
C21_LazyExpiry ==
    [][/\ \A t \in Threads :
             ChecksExpiry(t) =>
                 /\ bookings' = bookings
                 /\ th'[t].err = ErrBookingExpired <=> PendingLate(th[t].bid)
       /\ \A b \in 1..Len(bookings) :
             PendingLate(b) /\ bookings'[b] # bookings[b] =>
                 \E t \in Threads : \/ Calls(t, "ConfirmBooking", b)
                                    \/ Calls(t, "Expire", b)
                                    \/ Calls(t, "Cancel", b)]_vars

\* ProcessPayment has rejected a booking with ErrBookingExpired and the
\* booking is still Pending, past its deadline
C21_Witness ==
    \E t \in Threads :
        /\ th[t].pc = "pp_ret"
        /\ th[t].err = ErrBookingExpired
        /\ PendingLate(th[t].bid)


\* the k-th requested id is not in the screen or its seat is not Available
FailsValidation(seatIDs, k) ==
    \/ seatIDs[k] \notin Seats
    \/ ~IsAvailable(seatStatus[seatIDs[k]])

\* the first position of seatIDs that fails the validation, 0 when none does
FirstInvalid(seatIDs) ==
    LET bad == {k \in 1..Len(seatIDs) : FailsValidation(seatIDs, k)}
    IN  IF bad = {} THEN 0 ELSE CHOOSE k \in bad : \A m \in bad : k <= m

\* C22: BlockSeats validates before it mutates: while a call is in its
\* first pass no seat status changes; the pass ends the call exactly at the
\* first id, in request order, that is unknown (ErrSeatNotFound) or whose
\* seat is not Available (ErrSeatNotAvailable), the call having blocked
\* nothing; and the second pass starts only when every id passed.
C22_ValidateBeforeMutate ==
    [][\A t \in Threads :
          th[t].pc = "bs_check" =>
              LET k == FirstInvalid(th[t].seatIDs)
              IN  /\ seatStatus' = seatStatus
                  /\ th'[t].pc = "bs_ret" =>
                        /\ k # 0
                        /\ k = th[t].i
                        /\ th'[t].mine = {}
                        /\ th'[t].err =
                              IF th[t].seatIDs[k] \notin Seats
                              THEN ErrSeatNotFound
                              ELSE ErrSeatNotAvailable
                  /\ th'[t].pc = "bs_block" => k = 0]_vars

\* BlockSeats(<<A1, A2>>) with A2 Blocked is about to return
\* ErrSeatNotAvailable and A1 is Available
C22_Witness ==
    \E t \in Threads :
        /\ th[t].pc = "bs_ret"
        /\ th[t].seatIDs = <<"A1", "A2">>
        /\ th[t].err = ErrSeatNotAvailable
        /\ th[t].mine = {}
        /\ seatStatus["A1"] = SeatStatusAvailable
        /\ seatStatus["A2"] = SeatStatusBlocked


\* the current time t is past the show's booking cutoff
PastCutoff(show, t) == t > show.StartTime + BookingCutoff

\* the result the stated order of checks gives for the show
ShowOrder(showID, t) ==
    IF showID \notin DOMAIN Shows THEN ErrShowNotFound
    ELSE IF PastCutoff(Shows[showID], t) THEN ErrShowNotBookable
    ELSE IF Shows[showID].ScreenID \notin Screens THEN ErrScreenNotFound
    ELSE OK

\* C23: CreateBooking reports failures in a fixed order: unknown show, show
\* past its cutoff, unknown screen, then, in request order, the first
\* unknown seat (ErrSeatNotFound) or the first seat that is not Available
\* (ErrSeatNotAvailable); BlockSeats is called only when all of these checks
\* have passed.
C23_ErrorOrder ==
    [][\A t \in Threads :
          LET r == th[t]
              q == th'[t]
              n == Len(q.seatIDs)
          IN  /\ r.pc = "idle" /\ q.op = "CreateBooking" =>
                    /\ q.err = ShowOrder(q.showID, now)
                    /\ q.pc = "cb_ret" <=> q.err # OK
              /\ r.pc \in {"cb_getseat", "cb_avail"} /\ q.pc = "cb_ret" =>
                    /\ \A k \in 1..(n - 1) : q.seatIDs[k] \in Seats
                    /\ q.err = IF q.seatIDs[n] \notin Seats
                               THEN ErrSeatNotFound
                               ELSE ErrSeatNotAvailable
                    /\ q.seatIDs[n] \in Seats =>
                          ~IsAvailable(seatStatus[q.seatIDs[n]])
              /\ r.pc # "cb_block" /\ q.pc = "cb_block" =>
                    /\ q.showID \in DOMAIN Shows
                    /\ Shows[q.showID].ScreenID \in Screens
                    /\ \A k \in 1..n :
                          /\ q.seatIDs[k] \in Seats
                          /\ IsAvailable(seatStatus[q.seatIDs[k]])]_vars


\* C24: CreateBooking fails with ErrShowNotBookable exactly when the current
\* time is past the show's booking cutoff (start time + 30 minutes); up to
\* and including the cutoff instant it is not rejected for bookability.
C24_BookableUntilCutoff ==
    [][\A t \in Threads :
          th[t].pc = "idle" /\ th'[t].op = "CreateBooking"
          /\ th'[t].showID \in DOMAIN Shows =>
              (th'[t].err = ErrShowNotBookable
                  <=> PastCutoff(Shows[th'[t].showID], now))]_vars


\* the threads inside CreateBooking, between bs.mutex.Lock() and the
\* deferred bs.mutex.Unlock()
InCreateBooking == {t \in Threads : th[t].op = "CreateBooking"}

\* C25: booking creations are serialized: at most one thread is inside
\* CreateBooking, and it holds the service lock, so no step of another
\* CreateBooking falls between its seat checks and its BlockSeats.
C25_CreationsSerialized ==
    /\ Cardinality(InCreateBooking) <= 1
    /\ \A t \in InCreateBooking : svcMutex = t

\* one thread is in CreateBooking's price loop and another caller of
\* CreateBooking, with room for its booking, has to wait for the lock
C25_Witness ==
    \E t, u \in Threads :
        /\ th[t].pc = "cb_avail"
        /\ th[u].pc = "idle"
        /\ Len(bookings) < MaxBookings
        /\ ~ENABLED CB_Start(u)


GoesOn(t) ==
    LET r == th[t]
        n == Len(bookings[r.bid].SeatIDs)
    IN  /\ th'[t].err = OK
        /\ r.i < n => th'[t].pc = "cf_getseat" /\ th'[t].i = r.i + 1
        /\ r.i = n => th'[t].pc = "cf_notify"

\* C27: once Booking.Confirm has succeeded inside ConfirmBooking, a seat that
\* is missing from the screen or is not Blocked is skipped: the loop goes on
\* with the remaining seats (a Blocked seat becomes Booked), the booking
\* stays Confirmed, the notification is sent and ConfirmBooking returns
\* success.
C27_SeatFailureSkipped ==
    [][\A t \in Threads :
          LET r == th[t]
              s == bookings[r.bid].SeatIDs[r.i]
          IN  /\ r.pc \in {"cf_getseat", "cf_book", "cf_notify"} =>
                    bookings'[r.bid].Status = BookingStatusConfirmed
              /\ r.pc = "cf_getseat" /\ th'[t] # r =>
                    /\ seatStatus' = seatStatus
                    /\ IF s \notin Seats THEN GoesOn(t)
                       ELSE th'[t].pc = "cf_book" /\ th'[t].err = OK
              /\ r.pc = "cf_book" /\ th'[t] # r =>
                    /\ GoesOn(t)
                    /\ seatStatus' =
                          IF seatStatus[s] = SeatStatusBlocked
                          THEN [seatStatus EXCEPT ![s] = SeatStatusBooked]
                          ELSE seatStatus
              /\ r.pc = "cf_notify" /\ th'[t] # r =>
                    /\ notified'[r.bid] = notified[r.bid] + 1
                    /\ th'[t].pc = "cf_ret"
                    /\ th'[t].err = OK]_vars

\* ConfirmBooking is about to return success for a booking of X, A1 and A2:
\* X is not in the screen, A1 was not Blocked and is still Available, A2 is
\* Booked, the booking is Confirmed and the notification was sent
C27_Witness ==
    \E t \in Threads :
        /\ th[t].pc = "cf_ret"
        /\ th[t].err = OK
        /\ bookings[th[t].bid].SeatIDs = <<"X", "A1", "A2">>
        /\ bookings[th[t].bid].Status = BookingStatusConfirmed
        /\ notified[th[t].bid] = 1
        /\ seatStatus["A1"] = SeatStatusAvailable
        /\ seatStatus["A2"] = SeatStatusBooked


\* C28: a failure of the screen store's Update is absorbed: CreateBooking
\* still returns its Pending booking with the seats Blocked, and
\* ConfirmBooking still returns success with the booking Confirmed, the
\* seats Booked and the notification sent, as when the Update succeeds.
C28_ScreenUpdateFailureAbsorbed ==
    \A t \in Threads :
        th[t].upd = ErrStore =>
            /\ th[t].err = OK
            /\ th[t].bid \in 1..Len(bookings)
            /\ LET b == bookings[th[t].bid]
               IN  /\ th[t].pc = "cb_ret" =>
                         /\ b.Status = BookingStatusPending
                         /\ b.SeatIDs = th[t].seatIDs
                         /\ \A s \in Range(b.SeatIDs) :
                               seatStatus[s] = SeatStatusBlocked
                   /\ th[t].pc = "cf_ret" =>
                         /\ b.Status = BookingStatusConfirmed
                         /\ b.PaymentID = th[t].paymentID
                         /\ notified[th[t].bid] = 1
                         /\ \A s \in Range(b.SeatIDs) :
                               seatStatus[s] = SeatStatusBooked

\* the screen store's Update has failed in a CreateBooking and in a
\* ConfirmBooking, and both are about to return
C28_Witness ==
    \E t, u \in Threads :
        /\ th[t].pc = "cb_ret" /\ th[t].upd = ErrStore
        /\ th[u].pc = "cf_ret" /\ th[u].upd = ErrStore


\* a payment for booking b has failed
PaymentFailed(b) ==
    \E p \in 1..Len(payments) :
        payments[p].BookingID = b /\ payments[p].Status = PaymentStatusFailed

\* thread t starts a call of op on booking b
Starts(t, op, b) ==
    th[t].pc = "idle" /\ th'[t].op = op /\ th'[t].bid = b

C30_CapacityIsMappingSize ==
    (\A t \in Threads : th[t].pc # "as_inc") =>
        screen.Capacity = Cardinality(screen.Seats)


\* the fields of a booking that are fixed when NewBooking builds it
Fixed(b) == <<b.ID, b.UserID, b.ShowID, b.SeatIDs, b.TotalAmount,
              b.BookingTime, b.ExpiryTime>>

\* C31: after every step, every stored booking has a non-empty seat list, a
\* positive total amount, a user and a show; a NewBooking that is handed an
\* empty seat list or a zero amount fails with ErrInvalidBookingData and
\* stores nothing; and no step (Confirm, Cancel and Expire among them)
\* changes the seat list, total amount, user, show or deadline of a stored
\* booking.
C31_BookingDataFixed ==
    [][/\ \A b \in 1..Len(bookings') :
            /\ Len(bookings'[b].SeatIDs) > 0
            /\ bookings'[b].TotalAmount > 0
            /\ bookings'[b].UserID # ""
            /\ bookings'[b].ShowID # ""
       /\ \A t \in Threads :
            (th[t].pc = "cb_new" /\ th'[t] # th[t]
             /\ (Len(th[t].seatIDs) = 0 \/ th[t].total <= 0))
               => /\ th'[t].err = ErrInvalidBookingData
                  /\ th'[t].booking = NoBooking
                  /\ th'[t].pc # "cb_create"
       /\ Len(bookings') >= Len(bookings)
       /\ \A b \in 1..Len(bookings) :
            Fixed(bookings'[b]) = Fixed(bookings[b])]_vars

\* CreateBooking is about to return ErrInvalidBookingData for an empty seat
\* list while a booking of both seats stands Confirmed with its data as
\* NewBooking wrote them
C31_Witness ==
    \E t \in Threads :
        /\ th[t].pc = "cb_ret"
        /\ th[t].err = ErrInvalidBookingData
        /\ th[t].seatIDs = << >>
        /\ Len(bookings) = 1
        /\ bookings[1].Status = BookingStatusConfirmed
        /\ bookings[1].SeatIDs = <<"A1", "A2">>
        /\ bookings[1].TotalAmount = 250
        /\ bookings[1].ExpiryTime = BookingTimeout


\* C32: whenever CanBeCancelled answers for a stored booking, its answer is
\* true exactly if a Cancel called next on that booking succeeds.
C32_CanBeCancelledAgrees ==
    [][\A t \in Threads, b \in 1..MaxBookings :
          Starts(t, "CanBeCancelled", b)
             => (th'[t].can <=> BookingCancel(bookings'[b]).err = OK)]_vars


\* shows a and b play on the same screen at overlapping times
Overlap(a, b) ==
    /\ a.ScreenID = b.ScreenID
    /\ a.StartTime < b.EndTime
    /\ b.StartTime < a.EndTime

\* C33: after every step no two stored shows of one screen overlap in time,
\* and a CreateShow that finds a stored show of its screen overlapping its
\* range fails with ErrInvalidShowTime and stores nothing.
C33_NoOverlappingShows ==
    [][/\ \A i, j \in 1..Len(shows') :
            i # j => ~Overlap(shows'[i], shows'[j])
       /\ \A t \in Threads :
            (th[t].pc = "cs_check" /\ th'[t] # th[t]
             /\ CheckConflict(th[t].screenID, th[t].startTime, th[t].endTime))
               => /\ th'[t].pc = "cs_ret"
                  /\ th'[t].err = ErrInvalidShowTime
                  /\ shows' = shows]_vars


\* C34: every seat listed in a stored Pending booking is Blocked.
C34_PendingSeatsBlocked ==
    \A b \in 1..Len(bookings) :
        bookings[b].Status = BookingStatusPending
           => \A s \in Range(bookings[b].SeatIDs) :
                 seatStatus[s] = SeatStatusBlocked

\* booking 1 is Pending and holds A1 after its deadline, while a CreateBooking
\* for A2 whose store failed has rolled its seat back and is about to return
C34_Witness ==
    \E t \in Threads :
        /\ th[t].pc = "cb_ret"
        /\ th[t].err = ErrStore
        /\ th[t].seatIDs = <<"A2">>
        /\ seatStatus["A2"] = SeatStatusAvailable
        /\ Len(bookings) = 1
        /\ bookings[1].Status = BookingStatusPending
        /\ bookings[1].SeatIDs = <<"A1">>
        /\ now > bookings[1].ExpiryTime


\* C35: every Booked seat is listed in a stored booking that is Confirmed.
C35_BookedSeatsConfirmed ==
    \A s \in DOMAIN seatStatus :
        seatStatus[s] = SeatStatusBooked
           => \E b \in 1..Len(bookings) :
                 /\ bookings[b].Status = BookingStatusConfirmed
                 /\ s \in Range(bookings[b].SeatIDs)

\* A1 is Booked for the Confirmed booking 1 while a late ConfirmBooking on
\* booking 2 is about to return ErrBookingExpired and its seat A2 is still
\* Blocked
C35_Witness ==
    \E t \in Threads :
        /\ th[t].pc = "cf_ret"
        /\ th[t].err = ErrBookingExpired
        /\ th[t].bid = 2
        /\ Len(bookings) = 2
        /\ bookings[1].Status = BookingStatusConfirmed
        /\ bookings[1].SeatIDs = <<"A1">>
        /\ seatStatus["A1"] = SeatStatusBooked
        /\ bookings[2].Status = BookingStatusExpired
        /\ bookings[2].SeatIDs = <<"A2">>
        /\ seatStatus["A2"] = SeatStatusBlocked


C37_ErrorMeansNotConfirmed ==
    \A t \in Threads :
        (th[t].op = "ConfirmBooking" /\ th[t].pc = "cf_ret"
         /\ th[t].err # OK /\ th[t].bid \in 1..Len(bookings))
           => ~(/\ bookings[th[t].bid].Status = BookingStatusConfirmed
                /\ bookings[th[t].bid].PaymentID = th[t].paymentID)


\* C38: a stored booking becomes Expired only in a step taken strictly after
\* its deadline.
C38_ExpiredOnlyAfterDeadline ==
    [][\A b \in 1..Len(bookings) :
          (bookings[b].Status # BookingStatusExpired
           /\ bookings'[b].Status = BookingStatusExpired)
             => now > bookings[b].ExpiryTime]_vars


\* the payment records with status Success stored for booking b
SuccessfulPayments(b) ==
    {p \in 1..Len(payments) : /\ payments[p].BookingID = b
                              /\ payments[p].Status = PaymentStatusSuccess}

\* C39: no booking has more than one payment record with status Success.
C39_OneSuccessfulPayment ==
    \A b \in 1..Len(bookings) : Cardinality(SuccessfulPayments(b)) <= 1

====
